---------------------------- MODULE Spec2Model ----------------------------
(***************************************************************************)
(* Model of the Word exporter's formula pipeline of hoaithanhsp/pdftoword: *)
(* the brace extractor, the recursive LaTeX parser (parseLatexRecursive)   *)
(* and the inline text/math segmenter (parseMathInText).                   *)
(*                                                                         *)
(* A JavaScript string is a sequence of characters, each character a       *)
(* one-character TLA+ string; a non-ASCII glyph is one character written   *)
(* by its code point ("U+2264").  Indices are the 0-based indices of the   *)
(* JavaScript code: CharAt(s, k) is s[k].                                  *)
(***************************************************************************)
EXTENDS Naturals, Integers, Sequences, FiniteSets, TLC

\* -------------------------------------------------------------------------
\* JavaScript string primitives
\* -------------------------------------------------------------------------

\* s[k] of an index outside the string
Undefined == "undefined"

CharAt(s, k) == IF k >= 0 /\ k < Len(s) THEN s[k + 1] ELSE Undefined

Min(a, b) == IF a <= b THEN a ELSE b

Max(a, b) == IF a >= b THEN a ELSE b

\* s.substring(a, b): both ends clamped to 0..length, swapped when a > b
Substring(s, a, b) ==
    LET ca == Min(Max(a, 0), Len(s))
        cb == Min(Max(b, 0), Len(s))
    IN SubSeq(s, Min(ca, cb) + 1, Max(ca, cb))

\* s.substring(a)
SubstringFrom(s, a) == Substring(s, a, Len(s))

\* s.substring(k).startsWith(lit)
StartsWith(s, k, lit) ==
    /\ k >= 0
    /\ k + Len(lit) <= Len(s)
    /\ \A j \in 1..Len(lit) : s[k + j] = lit[j]

EndsWith(s, lit) == Len(lit) <= Len(s) /\ StartsWith(s, Len(s) - Len(lit), lit)

\* the least element of a non-empty set of integers
Least(S) == CHOOSE k \in S : \A m \in S : k <= m

\* s.indexOf(lit, from), -1 when there is none
IndexOf(s, lit, from) ==
    LET found == {k \in Max(from, 0)..(Len(s) - Len(lit)) : StartsWith(s, k, lit)}
    IN IF found = {} THEN -1 ELSE Least(found)

\* a variant that skips nothing
NoSkip(s, k) == k

\* while (s[k] === ' ') k++
SkipSpaces(s, k) ==
    Least({j \in k..Max(k, Len(s)) :
              /\ CharAt(s, j) # " "
              /\ \A m \in k..(j - 1) : CharAt(s, m) = " "})

\* the characters String.prototype.trim removes and \s matches
IsWhitespace(c) == c \in {" ", "\t", "\n", "\r"}

\* s.trim()
Trim(s) ==
    LET kept == {k \in 1..Len(s) : ~IsWhitespace(s[k])}
    IN IF kept = {} THEN <<>>
       ELSE SubSeq(s, Least(kept), CHOOSE k \in kept : \A m \in kept : m <= k)

\* [a-zA-Z]
Letters ==
    {"a", "b", "c", "d", "e", "f", "g", "h", "i", "j", "k", "l", "m",
     "n", "o", "p", "q", "r", "s", "t", "u", "v", "w", "x", "y", "z",
     "A", "B", "C", "D", "E", "F", "G", "H", "I", "J", "K", "L", "M",
     "N", "O", "P", "Q", "R", "S", "T", "U", "V", "W", "X", "Y", "Z"}

\* s.split(key).join(glyph), key non-empty: the occurrences of key, found
\* from left to right without overlap, each replaced by glyph
RECURSIVE SplitJoin(_, _, _)
SplitJoin(s, key, glyph) ==
    LET k == IndexOf(s, key, 0)
    IN IF k = -1 THEN s
       ELSE Substring(s, 0, k) \o glyph
                \o SplitJoin(SubstringFrom(s, k + Len(key)), key, glyph)

\* s.includes(key)
Includes(s, key) == IndexOf(s, key, 0) # -1

\* s.replace(/\\/g, "")
RemoveBackslashes(s) == SelectSeq(s, LAMBDA c : c # "\\")

\* -------------------------------------------------------------------------
\* LATEX SYMBOL MAPPING
\* -------------------------------------------------------------------------

\* the entries of latexSymbols as <<key, glyph>>, in the order of the literal
\* (the order Object.keys returns)
latexSymbolEntries ==
    <<
       <<<<"\\", "D", "e", "l", "t", "a">>, <<"U+0394">>>>,
       <<<<"\\", "a", "l", "p", "h", "a">>, <<"U+03B1">>>>,
       <<<<"\\", "b", "e", "t", "a">>, <<"U+03B2">>>>,
       <<<<"\\", "g", "a", "m", "m", "a">>, <<"U+03B3">>>>,
       <<<<"\\", "d", "e", "l", "t", "a">>, <<"U+03B4">>>>,
       <<<<"\\", "e", "p", "s", "i", "l", "o", "n">>, <<"U+03B5">>>>,
       <<<<"\\", "v", "a", "r", "e", "p", "s", "i", "l", "o", "n">>, <<"U+03B5">>>>,
       <<<<"\\", "z", "e", "t", "a">>, <<"U+03B6">>>>,
       <<<<"\\", "e", "t", "a">>, <<"U+03B7">>>>,
       <<<<"\\", "p", "i">>, <<"U+03C0">>>>,
       <<<<"\\", "P", "i">>, <<"U+03A0">>>>,
       <<<<"\\", "i", "n", "f", "t", "y">>, <<"U+221E">>>>,
       <<<<"\\", "t", "h", "e", "t", "a">>, <<"U+03B8">>>>,
       <<<<"\\", "T", "h", "e", "t", "a">>, <<"U+0398">>>>,
       <<<<"\\", "l", "a", "m", "b", "d", "a">>, <<"U+03BB">>>>,
       <<<<"\\", "L", "a", "m", "b", "d", "a">>, <<"U+039B">>>>,
       <<<<"\\", "s", "i", "g", "m", "a">>, <<"U+03C3">>>>,
       <<<<"\\", "S", "i", "g", "m", "a">>, <<"U+03A3">>>>,
       <<<<"\\", "O", "m", "e", "g", "a">>, <<"U+03A9">>>>,
       <<<<"\\", "o", "m", "e", "g", "a">>, <<"U+03C9">>>>,
       <<<<"\\", "m", "u">>, <<"U+03BC">>>>,
       <<<<"\\", "p", "h", "i">>, <<"U+03C6">>>>,
       <<<<"\\", "v", "a", "r", "p", "h", "i">>, <<"U+03C6">>>>,
       <<<<"\\", "P", "h", "i">>, <<"U+03A6">>>>,
       <<<<"\\", "p", "s", "i">>, <<"U+03C8">>>>,
       <<<<"\\", "P", "s", "i">>, <<"U+03A8">>>>,
       <<<<"\\", "r", "h", "o">>, <<"U+03C1">>>>,
       <<<<"\\", "t", "a", "u">>, <<"U+03C4">>>>,
       <<<<"\\", "l", "e">>, <<"U+2264">>>>,
       <<<<"\\", "l", "e", "q">>, <<"U+2264">>>>,
       <<<<"\\", "g", "e">>, <<"U+2265">>>>,
       <<<<"\\", "g", "e", "q">>, <<"U+2265">>>>,
       <<<<"\\", "n", "e">>, <<"U+2260">>>>,
       <<<<"\\", "n", "e", "q">>, <<"U+2260">>>>,
       <<<<"\\", "a", "p", "p", "r", "o", "x">>, <<"U+2248">>>>,
       <<<<"\\", "p", "m">>, <<"U+00B1">>>>,
       <<<<"\\", "m", "p">>, <<"U+2213">>>>,
       <<<<"\\", "e", "q", "u", "i", "v">>, <<"U+2261">>>>,
       <<<<"\\", "t", "i", "m", "e", "s">>, <<"U+00D7">>>>,
       <<<<"\\", "c", "d", "o", "t">>, <<"U+00B7">>>>,
       <<<<"\\", "d", "i", "v">>, <<"U+00F7">>>>,
       <<<<"\\", "a", "s", "t">>, <<"*">>>>,
       <<<<"\\", "r", "i", "g", "h", "t", "a", "r", "r", "o", "w">>, <<"U+2192">>>>,
       <<<<"\\", "R", "i", "g", "h", "t", "a", "r", "r", "o", "w">>, <<"U+21D2">>>>,
       <<<<"\\", "L", "e", "f", "t", "r", "i", "g", "h", "t", "a", "r", "r", "o", "w">>, <<"U+21D4">>>>,
       <<<<"\\", "l", "e", "f", "t", "r", "i", "g", "h", "t", "a", "r", "r", "o", "w">>, <<"U+2194">>>>,
       <<<<"\\", "i", "n">>, <<"U+2208">>>>,
       <<<<"\\", "s", "u", "b", "s", "e", "t">>, <<"U+2282">>>>,
       <<<<"\\", "s", "u", "b", "s", "e", "t", "e", "q">>, <<"U+2286">>>>,
       <<<<"\\", "c", "u", "p">>, <<"U+222A">>>>,
       <<<<"\\", "c", "a", "p">>, <<"U+2229">>>>,
       <<<<"\\", "n", "o", "t", "i", "n">>, <<"U+2209">>>>,
       <<<<"\\", "e", "m", "p", "t", "y", "s", "e", "t">>, <<"U+2205">>>>,
       <<<<"\\", "f", "o", "r", "a", "l", "l">>, <<"U+2200">>>>,
       <<<<"\\", "e", "x", "i", "s", "t", "s">>, <<"U+2203">>>>,
       <<<<"\\", "p", "a", "r", "t", "i", "a", "l">>, <<"U+2202">>>>,
       <<<<"\\", "n", "a", "b", "l", "a">>, <<"U+2207">>>>,
       <<<<"\\", "p", "e", "r", "p">>, <<"U+22A5">>>>,
       <<<<"\\", "p", "a", "r", "a", "l", "l", "e", "l">>, <<"U+2225">>>>,
       <<<<"\\", "a", "n", "g", "l", "e">>, <<"U+2220">>>>,
       <<<<"\\", "t", "r", "i", "a", "n", "g", "l", "e">>, <<"U+25B3">>>>,
       <<<<"\\", "d", "e", "g", "r", "e", "e", "s">>, <<"U+00B0">>>>,
       <<<<"\\", "c", "i", "r", "c">>, <<"U+00B0">>>>,
       <<<<"\\", "d", "e", "g">>, <<"U+00B0">>>>,
       <<<<"\\", "m", "a", "t", "h", "b", "b", "{", "N", "}">>, <<"U+2115">>>>,
       <<<<"\\", "m", "a", "t", "h", "b", "b", "{", "Z", "}">>, <<"U+2124">>>>,
       <<<<"\\", "m", "a", "t", "h", "b", "b", "{", "Q", "}">>, <<"U+211A">>>>,
       <<<<"\\", "m", "a", "t", "h", "b", "b", "{", "R", "}">>, <<"U+211D">>>>,
       <<<<"\\", "m", "a", "t", "h", "b", "b", "{", "C", "}">>, <<"U+2102">>>>,
       <<<<"\\", "s", "i", "n">>, <<"s", "i", "n">>>>,
       <<<<"\\", "c", "o", "s">>, <<"c", "o", "s">>>>,
       <<<<"\\", "t", "a", "n">>, <<"t", "a", "n">>>>,
       <<<<"\\", "c", "o", "t">>, <<"c", "o", "t">>>>,
       <<<<"\\", "a", "r", "c", "s", "i", "n">>, <<"a", "r", "c", "s", "i", "n">>>>,
       <<<<"\\", "a", "r", "c", "c", "o", "s">>, <<"a", "r", "c", "c", "o", "s">>>>,
       <<<<"\\", "a", "r", "c", "t", "a", "n">>, <<"a", "r", "c", "t", "a", "n">>>>,
       <<<<"\\", "l", "n">>, <<"l", "n">>>>,
       <<<<"\\", "l", "o", "g">>, <<"l", "o", "g">>>>,
       <<<<"\\", "l", "i", "m">>, <<"l", "i", "m">>>>,
       <<<<"\\", "m", "i", "n">>, <<"m", "i", "n">>>>,
       <<<<"\\", "m", "a", "x">>, <<"m", "a", "x">>>>,
       <<<<"\\", "e", "x", "p">>, <<"e", "x", "p">>>>,
       <<<<"\\", "t", "o">>, <<"U+2192">>>>,
       <<<<"\\", "q", "u", "a", "d">>, <<" ", " ">>>>,
       <<<<"\\", "q", "q", "u", "a", "d">>, <<" ", " ", " ", " ">>>>,
       <<<<"\\", ";">>, <<" ">>>>,
       <<<<"\\", ",">>, <<" ">>>>,
       <<<<"\\", "!">>, <<>>>>
    >>

\* Object.keys(entries)
Keys(entries) == [n \in 1..Len(entries) |-> entries[n][1]]

symbolKeys == Keys(latexSymbolEntries)

\* entries[key]
Lookup(entries, key) ==
    entries[CHOOSE n \in 1..Len(entries) : entries[n][1] = key][2]

\* latexSymbols[key]
latexSymbols(key) == Lookup(latexSymbolEntries, key)

\* keys.sort((a, b) => b.length - a.length): a stable sort, so the keys of
\* one length keep the order of the literal, after all longer keys
KeysOfLength(keys, n) == SelectSeq(keys, LAMBDA key : Len(key) = n)

RECURSIVE SortByLength(_, _)
SortByLength(keys, n) ==
    IF n = 0 THEN KeysOfLength(keys, 0)
    ELSE KeysOfLength(keys, n) \o SortByLength(keys, n - 1)

MaxKeyLength(keys) ==
    CHOOSE n \in {Len(keys[m]) : m \in 1..Len(keys)} :
        \A m \in 1..Len(keys) : Len(keys[m]) <= n

\* a variant that leaves the keys in the order of the literal
LiteralOrder(keys) == keys

SortedByLength(keys) == SortByLength(keys, MaxKeyLength(keys))

sortedSymbolKeys == SortedByLength(symbolKeys)

\* -------------------------------------------------------------------------
\* docx math objects
\* -------------------------------------------------------------------------

MathRun(text) == [type |-> "MathRun", text |-> text]

MathFraction(numerator, denominator) ==
    [type |-> "MathFraction", numerator |-> numerator,
     denominator |-> denominator]

MathSuperScript(children, superScript) ==
    [type |-> "MathSuperScript", children |-> children,
     superScript |-> superScript]

MathSubScript(children, subScript) ==
    [type |-> "MathSubScript", children |-> children, subScript |-> subScript]

\* degree is <<d>> for the node list d, and <<>> for undefined
MathRadical(degree, children) ==
    [type |-> "MathRadical", degree |-> degree, children |-> children]

\* -------------------------------------------------------------------------
\* extractBracedContent
\* -------------------------------------------------------------------------

\* the null an unmatched extraction returns
Null == [found |-> FALSE]

\* the for loop of extractBracedContent, from index i with depth `depth`
RECURSIVE ExtractLoop(_, _, _, _)
ExtractLoop(text, startIndex, i, depth) ==
    IF i < Len(text)
    THEN LET d1 == IF CharAt(text, i) = "{" THEN depth + 1 ELSE depth
             d2 == IF CharAt(text, i) = "}" THEN d1 - 1 ELSE d1
         IN IF d2 = 0
            THEN [found |-> TRUE,
                  content |-> Substring(text, startIndex + 1, i),
                  newIndex |-> i + 1]
            ELSE ExtractLoop(text, startIndex, i + 1, d2)
    ELSE Null

\* a variant that takes the first closing brace, whatever the nesting
extractToFirstClose(text, startIndex) ==
    IF CharAt(text, startIndex) # "{" \/ IndexOf(text, <<"}">>, startIndex) = -1
    THEN Null
    ELSE [found |-> TRUE,
          content |-> Substring(text, startIndex + 1,
                                IndexOf(text, <<"}">>, startIndex)),
          newIndex |-> IndexOf(text, <<"}">>, startIndex) + 1]

extractBracedContent(text, startIndex) ==
    IF CharAt(text, startIndex) # "{" THEN Null
    ELSE ExtractLoop(text, startIndex, startIndex, 0)

\* -------------------------------------------------------------------------
\* parseLatexRecursive
\* -------------------------------------------------------------------------

\* the string literals of the parser
WidehatCmd == <<"\\", "w", "i", "d", "e", "h", "a", "t">>
BeginCases == <<"\\", "b", "e", "g", "i", "n", "{", "c", "a", "s", "e", "s", "}">>
EndCases == <<"\\", "e", "n", "d", "{", "c", "a", "s", "e", "s", "}">>
FracCmd == <<"\\", "f", "r", "a", "c">>
DfracCmd == <<"\\", "d", "f", "r", "a", "c">>
SqrtCmd == <<"\\", "s", "q", "r", "t">>
LeftCmd == <<"\\", "l", "e", "f", "t">>
RightCmd == <<"\\", "r", "i", "g", "h", "t">>
TextCmd == <<"\\", "t", "e", "x", "t">>
OverlineCmd == <<"\\", "o", "v", "e", "r", "l", "i", "n", "e">>
AngleGlyph == <<"U+2220">>
OverlineGlyph == <<"U+0305">>
CasesOpen == <<"{", " ">>
CasesSeparator == <<" ", ";", " ">>

\* the body of sortedSymbolKeys.forEach(key => ...) of flushBuffer
replaceSymbol(processed, key) ==
    IF Includes(processed, key)
    THEN SplitJoin(processed, key, latexSymbols(key))
    ELSE processed

\* the forEach over the lo-th to hi-th of the keys, in order.  The range is
\* halved, and an empty string (in which no key occurs) is returned at once,
\* to keep the evaluation shallow
RECURSIVE ReplaceSymbols(_, _, _, _)
ReplaceSymbols(processed, keys, lo, hi) ==
    IF lo > hi \/ processed = <<>> THEN processed
    ELSE IF lo = hi THEN replaceSymbol(processed, keys[lo])
    ELSE ReplaceSymbols(
             ReplaceSymbols(processed, keys, lo, (lo + hi) \div 2),
             keys, (lo + hi) \div 2 + 1, hi)

\* sortedSymbolKeys.forEach(key => ...)
ReplaceAllSymbols(processed, keys) ==
    ReplaceSymbols(processed, keys, 1, Len(keys))

\* the nodes after nodes.push(new docx.MathRun(processed)) when processed is
\* not empty
PushRun(nodes, processed) ==
    IF Len(processed) > 0 THEN Append(nodes, MathRun(processed)) ELSE nodes

\* flushBuffer(): the nodes after the flush (the buffer is then empty)
flushBuffer(nodes, textBuffer) ==
    IF textBuffer # <<>>
    THEN PushRun(nodes, RemoveBackslashes(
                            ReplaceAllSymbols(textBuffer, sortedSymbolKeys)))
    ELSE nodes

RECURSIVE parseLatexRecursive(_)

\* what a handler of the scan gives when its pattern does not apply
NoMatch == [matched |-> FALSE]

Matched(nodes, i) == [matched |-> TRUE, nodes |-> nodes, i |-> i]

\* Handle \widehat: the angle symbol, then the argument's nodes
widehatCommand(latex, i, nodes) ==
    IF StartsWith(latex, i, WidehatCmd)
    THEN LET argStart == SkipSpaces(latex, i + 8)
             arg == extractBracedContent(latex, argStart)
         IN IF arg.found
            THEN Matched(Append(nodes, MathRun(AngleGlyph))
                             \o parseLatexRecursive(arg.content),
                         arg.newIndex)
            ELSE NoMatch
    ELSE NoMatch

\* innerContent.split(/\\\\|\\/) from index k on: at a backslash the
\* separator is the double backslash when a second one follows, and the
\* single backslash otherwise
RECURSIVE SplitCasesFrom(_, _)
SplitCasesFrom(s, k) ==
    LET sep == IndexOf(s, <<"\\">>, k)
    IN IF sep = -1 THEN <<SubstringFrom(s, k)>>
       ELSE <<Substring(s, k, sep)>>
                \o SplitCasesFrom(s, IF CharAt(s, sep + 1) = "\\"
                                     THEN sep + 2 ELSE sep + 1)

SplitCases(innerContent) == SplitCasesFrom(innerContent, 0)

\* .map(l => l.trim()).filter(l => l !== "")
TrimAndDropEmpty(pieces) ==
    SelectSeq([n \in 1..Len(pieces) |-> Trim(pieces[n])],
              LAMBDA l : l # <<>>)

casesLines(innerContent) == TrimAndDropEmpty(SplitCases(innerContent))

\* casesLines.forEach((line, idx) => ...), from the idx-th line (0-based) on
RECURSIVE CasesNodes(_, _)
CasesNodes(lines, idx) ==
    IF idx >= Len(lines) THEN <<>>
    ELSE parseLatexRecursive(lines[idx + 1])
            \o (IF idx < Len(lines) - 1
                THEN <<MathRun(CasesSeparator)>> ELSE <<>>)
            \o CasesNodes(lines, idx + 1)

\* Handle \begin{cases}...\end{cases}
casesCommand(latex, i, nodes) ==
    IF StartsWith(latex, i, BeginCases)
    THEN LET endIdx == IndexOf(latex, EndCases, i)
         IN IF endIdx # -1
            THEN LET innerContent == Substring(latex, i + 13, endIdx)
                 IN Matched(Append(nodes, MathRun(CasesOpen))
                                \o CasesNodes(casesLines(innerContent), 0),
                            endIdx + 11)
            ELSE NoMatch
    ELSE NoMatch

\* Handle \frac{numerator}{denominator}
fracCommand(latex, i, nodes) ==
    IF StartsWith(latex, i, FracCmd) \/ StartsWith(latex, i, DfracCmd)
    THEN LET cmdLen == IF StartsWith(latex, i, DfracCmd) THEN 6 ELSE 5
             startArg == SkipSpaces(latex, i + cmdLen)
             firstArg == extractBracedContent(latex, startArg)
         IN IF firstArg.found
            THEN LET secondArgStart == SkipSpaces(latex, firstArg.newIndex)
                     secondArg == extractBracedContent(latex, secondArgStart)
                 IN IF secondArg.found
                    THEN Matched(
                             Append(nodes, MathFraction(
                                 parseLatexRecursive(firstArg.content),
                                 parseLatexRecursive(secondArg.content))),
                             secondArg.newIndex)
                    ELSE NoMatch
            ELSE NoMatch
    ELSE NoMatch

\* a variant that keeps a degree without nodes
keptDegree(degree) == <<degree>>

\* degree: degree.length > 0 ? degree : undefined
radicalDegree(degree) == IF Len(degree) > 0 THEN <<degree>> ELSE <<>>

\* Handle \sqrt[n]{content} and \sqrt{content}
sqrtCommand(latex, i, nodes) ==
    IF StartsWith(latex, i, SqrtCmd)
    THEN LET closeBracket == IndexOf(latex, <<"]">>, i + 5)
             hasDegree == CharAt(latex, i + 5) = "[" /\ closeBracket > -1
             degree == IF hasDegree
                       THEN parseLatexRecursive(
                                Substring(latex, i + 5 + 1, closeBracket))
                       ELSE <<>>
             contentStart == IF hasDegree THEN closeBracket + 1 ELSE i + 5
             arg == extractBracedContent(latex, contentStart)
         IN IF arg.found
            THEN Matched(
                     Append(nodes, MathRadical(
                         radicalDegree(degree),
                         parseLatexRecursive(arg.content))),
                     arg.newIndex)
            ELSE NoMatch
    ELSE NoMatch

\* Skip \left and \right (sizing commands)
leftCommand(latex, i, nodes) ==
    IF StartsWith(latex, i, LeftCmd) THEN Matched(nodes, i + 5) ELSE NoMatch

rightCommand(latex, i, nodes) ==
    IF StartsWith(latex, i, RightCmd) THEN Matched(nodes, i + 6) ELSE NoMatch

\* a variant that parses the argument of \text as a formula
textParsed(latex, i, nodes) ==
    IF StartsWith(latex, i, TextCmd)
    THEN LET argStart == SkipSpaces(latex, i + 5)
             arg == extractBracedContent(latex, argStart)
         IN IF arg.found
            THEN Matched(nodes \o parseLatexRecursive(arg.content),
                         arg.newIndex)
            ELSE NoMatch
    ELSE NoMatch

\* \text{...}: just output the text content
textCommand(latex, i, nodes) ==
    IF StartsWith(latex, i, TextCmd)
    THEN LET argStart == SkipSpaces(latex, i + 5)
             arg == extractBracedContent(latex, argStart)
         IN IF arg.found
            THEN Matched(Append(nodes, MathRun(arg.content)), arg.newIndex)
            ELSE NoMatch
    ELSE NoMatch

\* \overline{...}: the argument's nodes, then the combining overline
overlineCommand(latex, i, nodes) ==
    IF StartsWith(latex, i, OverlineCmd)
    THEN LET argStart == SkipSpaces(latex, i + 9)
             arg == extractBracedContent(latex, argStart)
         IN IF arg.found
            THEN Matched(Append(nodes \o parseLatexRecursive(arg.content),
                                MathRun(OverlineGlyph)),
                         arg.newIndex)
            ELSE NoMatch
    ELSE NoMatch

\* the state of one scan: the index, the pending text and the nodes emitted
ScanState(i, textBuffer, nodes) ==
    [i |-> i, textBuffer |-> textBuffer, nodes |-> nodes]

\* the first handler if its pattern applied, and else the second
FirstMatch(first, second) == IF first.matched THEN first ELSE second

\* a variant that, when no handler applied, drops the character after the
\* backslash
resumeTwoAhead(handled, i, flushed) ==
    IF handled.matched
    THEN ScanState(handled.i, <<>>, handled.nodes)
    ELSE ScanState(i + 2, <<"\\">>, flushed)

\* a handler applied and did `continue`; or none did, and the code goes on to
\* textBuffer += char; i++
AfterHandlers(handled, i, flushed) ==
    IF handled.matched
    THEN ScanState(handled.i, <<>>, handled.nodes)
    ELSE ScanState(i + 1, <<"\\">>, flushed)

\* the handlers of a backslash, in the order of the code
backslashHandlers(latex, i, flushed) ==
    FirstMatch(widehatCommand(latex, i, flushed),
    FirstMatch(casesCommand(latex, i, flushed),
    FirstMatch(fracCommand(latex, i, flushed),
    FirstMatch(sqrtCommand(latex, i, flushed),
    FirstMatch(leftCommand(latex, i, flushed),
    FirstMatch(rightCommand(latex, i, flushed),
    FirstMatch(textCommand(latex, i, flushed),
               overlineCommand(latex, i, flushed))))))))

\* the branch char === '\\' of the scan loop, after its flushBuffer()
backslashDispatch(latex, i, flushed) ==
    AfterHandlers(backslashHandlers(latex, i, flushed), i, flushed)

\* the branch char === '\\' of the scan loop
backslashBranch(latex, st) ==
    backslashDispatch(latex, st.i, flushBuffer(st.nodes, st.textBuffer))

\* latex.substring(newIdx).match(/^(\\[a-zA-Z]+)/): the length of the match,
\* 0 when there is none
LettersFrom(s, k) ==
    Least({j \in k..Max(k, Len(s)) :
              /\ CharAt(s, j) \notin Letters
              /\ \A m \in k..(j - 1) : CharAt(s, m) \in Letters}) - k

commandMatch(latex, newIdx) ==
    IF CharAt(latex, newIdx) = "\\" /\ LettersFrom(latex, newIdx + 1) > 0
    THEN 1 + LettersFrom(latex, newIdx + 1)
    ELSE 0

\* the script of a ^ or _ at index i: its nodes and the index after it
scriptArgument(latex, i) ==
    LET newIdx == i + 1
    IN IF newIdx < Len(latex)
       THEN IF CharAt(latex, newIdx) = "{"
            THEN LET extracted == extractBracedContent(latex, newIdx)
                 IN IF extracted.found
                    THEN [scriptContent |->
                              parseLatexRecursive(extracted.content),
                          newIdx |-> extracted.newIndex]
                    ELSE [scriptContent |-> <<>>, newIdx |-> newIdx]
            ELSE IF CharAt(latex, newIdx) = "\\"
            THEN LET matchLen == commandMatch(latex, newIdx)
                 IN IF matchLen > 0
                    THEN [scriptContent |->
                              parseLatexRecursive(
                                  Substring(latex, newIdx, newIdx + matchLen)),
                          newIdx |-> newIdx + matchLen]
                    ELSE [scriptContent |-> <<MathRun(<<"\\">>)>>,
                          newIdx |-> newIdx + 1]
            ELSE [scriptContent |-> <<MathRun(<<CharAt(latex, newIdx)>>)>>,
                  newIdx |-> newIdx + 1]
       ELSE [scriptContent |-> <<>>, newIdx |-> newIdx]

\* a variant whose base is always the empty run
emptyBase(nodes) == <<MathRun(<<>>)>>

\* const lastNode = nodes.pop(); base = lastNode ? [lastNode] : [MathRun("")]
scriptBase(nodes) ==
    IF nodes # <<>> THEN <<nodes[Len(nodes)]>> ELSE <<MathRun(<<>>)>>

\* nodes after nodes.pop()
Popped(nodes) ==
    IF nodes # <<>> THEN SubSeq(nodes, 1, Len(nodes) - 1) ELSE <<>>

\* the script node pushed for the operator char on base
scriptNode(char, base, scriptContent) ==
    IF char = "^"
    THEN MathSuperScript(base, scriptContent)
    ELSE MathSubScript(base, scriptContent)

\* the branch char === '^' || char === '_' of the scan loop, after its
\* flushBuffer()
scriptDispatch(latex, i, flushed, script) ==
    ScanState(script.newIdx, <<>>,
              Append(Popped(flushed),
                     scriptNode(CharAt(latex, i), scriptBase(flushed),
                                script.scriptContent)))

\* the branch char === '^' || char === '_' of the scan loop
scriptBranch(latex, st) ==
    scriptDispatch(latex, st.i, flushBuffer(st.nodes, st.textBuffer),
                   scriptArgument(latex, st.i))

\* a variant whose index moves on by two
advanceTwo(latex, st) ==
    ScanState(st.i + 2, Append(st.textBuffer, CharAt(latex, st.i)), st.nodes)

\* the last branch of the scan loop: the character is buffered
plainBranch(latex, st) ==
    ScanState(st.i + 1, Append(st.textBuffer, CharAt(latex, st.i)), st.nodes)

\* one iteration of while (i < latex.length)
scanStep(latex, st) ==
    IF CharAt(latex, st.i) = "\\" THEN backslashBranch(latex, st)
    ELSE IF CharAt(latex, st.i) \in {"^", "_"} THEN scriptBranch(latex, st)
    ELSE plainBranch(latex, st)

\* the scan loop from a state on, then the last flushBuffer and the return
RECURSIVE scanLoop(_, _)
scanLoop(latex, st) ==
    IF st.i < Len(latex)
    THEN scanLoop(latex, scanStep(latex, st))
    ELSE flushBuffer(st.nodes, st.textBuffer)

parseLatexRecursive(latex) == scanLoop(latex, ScanState(0, <<>>, <<>>))

\* -------------------------------------------------------------------------
\* parseMathInText
\* -------------------------------------------------------------------------

\* docx.Math({ children })
Math(children) == [type |-> "Math", children |-> children]

\* docx.TextRun({ text }), docx.TextRun({ text, bold: true }) and
\* docx.TextRun({ text, italics: true })
TextRun(text) == [type |-> "TextRun", text |-> text, style |-> "plain"]

BoldRun(text) == [type |-> "TextRun", text |-> text, style |-> "bold"]

ItalicRun(text) == [type |-> "TextRun", text |-> text, style |-> "italics"]

Dollar == <<"$">>

DoubleDollar == <<"$", "$">>

Star == <<"*">>

DoubleStar == <<"*", "*">>

\* a variant that tries the inline form before the display form
inlineFirst(s, k) ==
    IF StartsWith(s, k, Dollar) /\ IndexOf(s, Dollar, k + 1) # -1
    THEN IndexOf(s, Dollar, k + 1) + 1 - k
    ELSE 0

\* the length of the match of /\$\$[\s\S]*?\$\$|\$[^$]*?\$/ at index k of s,
\* 0 when there is none: the display form up to the next "$$", and else the
\* inline form up to the next "$"
MathMatchLen(s, k) ==
    IF StartsWith(s, k, DoubleDollar) /\ IndexOf(s, DoubleDollar, k + 2) # -1
    THEN IndexOf(s, DoubleDollar, k + 2) + 2 - k
    ELSE IF StartsWith(s, k, Dollar) /\ IndexOf(s, Dollar, k + 1) # -1
    THEN IndexOf(s, Dollar, k + 1) + 1 - k
    ELSE 0

\* text.split(/(\$\$[\s\S]*?\$\$|\$[^$]*?\$)/g) from index k on: the text
\* before the leftmost match, the match (the capture group), and the rest
RECURSIVE SplitMathFrom(_, _)
SplitMathFrom(s, k) ==
    LET starts == {j \in k..(Len(s) - 1) : MathMatchLen(s, j) > 0}
    IN IF starts = {} THEN <<SubstringFrom(s, k)>>
       ELSE <<Substring(s, k, Least(starts)),
              Substring(s, Least(starts),
                        Least(starts) + MathMatchLen(s, Least(starts)))>>
                \o SplitMathFrom(s, Least(starts)
                                        + MathMatchLen(s, Least(starts)))

SplitMath(text) == SplitMathFrom(text, 0)

\* /^\$\$[\s\S]*?\$\$|^\$[^$]*?\$$/.test(trimmed)
isMath(trimmed) ==
    \/ /\ StartsWith(trimmed, 0, DoubleDollar)
       /\ IndexOf(trimmed, DoubleDollar, 2) # -1
    \/ /\ StartsWith(trimmed, 0, Dollar)
       /\ IndexOf(trimmed, Dollar, 1) = Len(trimmed) - 1

\* the length of the match of /^\${1,2}/ in trimmed
LeadingDollars(trimmed) ==
    IF StartsWith(trimmed, 0, DoubleDollar) THEN 2
    ELSE IF StartsWith(trimmed, 0, Dollar) THEN 1
    ELSE 0

\* the length of the match of /\${1,2}$/ in trimmed, searched from index
\* `from` on, where the match at the start ended
TrailingDollars(trimmed, from) ==
    IF Len(trimmed) - 2 >= from /\ EndsWith(trimmed, DoubleDollar) THEN 2
    ELSE IF Len(trimmed) - 1 >= from /\ EndsWith(trimmed, Dollar) THEN 1
    ELSE 0

\* a variant that takes one "$" off each end, whatever the delimiter
stripOneDollar(trimmed) == Substring(trimmed, 1, Len(trimmed) - 1)

\* trimmed.replace(/^\${1,2}|\${1,2}$/g, "")
stripDelimiters(trimmed) ==
    Substring(trimmed, LeadingDollars(trimmed),
              Len(trimmed) - TrailingDollars(trimmed, LeadingDollars(trimmed)))

\* const mathContent = trimmed.replace(...).trim()
mathContent(trimmed) == Trim(stripDelimiters(trimmed))

\* the length of the longest run of characters other than "*" from index k
NonStarRun(s, k) ==
    Least({j \in k..Max(k, Len(s)) :
              /\ j >= Len(s) \/ CharAt(s, j) = "*"
              /\ \A m \in k..(j - 1) : CharAt(s, m) # "*"}) - k

\* the length of the match of /\*\*[^*]+\*\*|\*[^*]+\*/ at index k of s,
\* 0 when there is none
StyleMatchLen(s, k) ==
    IF /\ StartsWith(s, k, DoubleStar)
       /\ NonStarRun(s, k + 2) > 0
       /\ StartsWith(s, k + 2 + NonStarRun(s, k + 2), DoubleStar)
    THEN NonStarRun(s, k + 2) + 4
    ELSE IF /\ StartsWith(s, k, Star)
            /\ NonStarRun(s, k + 1) > 0
            /\ StartsWith(s, k + 1 + NonStarRun(s, k + 1), Star)
    THEN NonStarRun(s, k + 1) + 2
    ELSE 0

\* part.split(/(\*\*[^*]+\*\*|\*[^*]+\*)/g) from index k on
RECURSIVE SplitStyleFrom(_, _)
SplitStyleFrom(s, k) ==
    LET starts == {j \in k..(Len(s) - 1) : StyleMatchLen(s, j) > 0}
    IN IF starts = {} THEN <<SubstringFrom(s, k)>>
       ELSE <<Substring(s, k, Least(starts)),
              Substring(s, Least(starts),
                        Least(starts) + StyleMatchLen(s, Least(starts)))>>
                \o SplitStyleFrom(s, Least(starts)
                                         + StyleMatchLen(s, Least(starts)))

SplitStyle(part) == SplitStyleFrom(part, 0)

\* seg.slice(a, -b)
Slice(seg, a, b) ==
    IF Len(seg) - b > a THEN SubSeq(seg, a + 1, Len(seg) - b) ELSE <<>>

\* the body of segments.forEach(seg => ...): the runs pushed for seg
segmentRun(seg) ==
    IF StartsWith(seg, 0, DoubleStar) /\ EndsWith(seg, DoubleStar)
    THEN <<BoldRun(Slice(seg, 2, 2))>>
    ELSE IF StartsWith(seg, 0, Star) /\ EndsWith(seg, Star)
    THEN <<ItalicRun(Slice(seg, 1, 1))>>
    ELSE IF seg # <<>> THEN <<TextRun(seg)>>
    ELSE <<>>

\* segments.forEach(...), from the n-th segment on
RECURSIVE segmentRuns(_, _)
segmentRuns(segments, n) ==
    IF n > Len(segments) THEN <<>>
    ELSE segmentRun(segments[n]) \o segmentRuns(segments, n + 1)

\* the runs pushed for a part that is not math
textPart(part) ==
    IF part # <<>> THEN segmentRuns(SplitStyle(part), 1) ELSE <<>>

\* the run pushed for a part that is math when the try block completes
mathPart(trimmed) == Math(parseLatexRecursive(mathContent(trimmed)))

\* a variant whose fallback run carries the content without its delimiters
caughtContent(trimmed) ==
    [type |-> "TextRun", text |-> mathContent(trimmed), style |-> "plain",
     color |-> "FF0000"]

\* the run pushed by the catch block:
\* docx.TextRun({ text: trimmed, color: "FF0000" })
caughtRun(trimmed) ==
    [type |-> "TextRun", text |-> trimmed, style |-> "plain",
     color |-> "FF0000"]

\* the body of mathParts.forEach(part => ...): the runs pushed for part
partRuns(part) ==
    IF isMath(Trim(part)) THEN <<mathPart(Trim(part))>> ELSE textPart(part)

\* mathParts.forEach(...), from the n-th part on
RECURSIVE partsRuns(_, _)
partsRuns(mathParts, n) ==
    IF n > Len(mathParts) THEN <<>>
    ELSE partRuns(mathParts[n]) \o partsRuns(mathParts, n + 1)

parseMathInText(text) == partsRuns(SplitMath(text), 1)

\* -------------------------------------------------------------------------
\* The recursive calls of parseLatexRecursive
\* -------------------------------------------------------------------------

\* the elements of a sequence
Range(seq) == {seq[n] : n \in 1..Len(seq)}

\* the strings the \sqrt handler at index i calls parseLatexRecursive on: the
\* degree, parsed before the braced argument is looked for, and the argument
sqrtCalls(latex, i) ==
    (IF CharAt(latex, i + 5) = "[" /\ IndexOf(latex, <<"]">>, i + 5) > -1
     THEN {Substring(latex, i + 6, IndexOf(latex, <<"]">>, i + 5))}
     ELSE {})
    \cup
    (IF sqrtCommand(latex, i, <<>>).matched
     THEN {extractBracedContent(
               latex,
               IF CharAt(latex, i + 5) = "[" /\ IndexOf(latex, <<"]">>, i + 5) > -1
               THEN IndexOf(latex, <<"]">>, i + 5) + 1
               ELSE i + 5).content}
     ELSE {})

\* the strings the iteration at a backslash at index i calls
\* parseLatexRecursive on
backslashCalls(latex, i) ==
    IF widehatCommand(latex, i, <<>>).matched
    THEN {extractBracedContent(latex, SkipSpaces(latex, i + 8)).content}
    ELSE IF casesCommand(latex, i, <<>>).matched
    THEN Range(casesLines(Substring(latex, i + 13,
                                    IndexOf(latex, EndCases, i))))
    ELSE IF fracCommand(latex, i, <<>>).matched
    THEN {extractBracedContent(
              latex,
              SkipSpaces(latex, i + (IF StartsWith(latex, i, DfracCmd)
                                     THEN 6 ELSE 5))).content,
          extractBracedContent(
              latex,
              SkipSpaces(latex,
                         extractBracedContent(
                             latex,
                             SkipSpaces(latex,
                                        i + (IF StartsWith(latex, i, DfracCmd)
                                             THEN 6 ELSE 5))).newIndex)).content}
    ELSE IF StartsWith(latex, i, SqrtCmd) THEN sqrtCalls(latex, i)
    ELSE IF \/ leftCommand(latex, i, <<>>).matched
            \/ rightCommand(latex, i, <<>>).matched
            \/ textCommand(latex, i, <<>>).matched
    THEN {}
    ELSE IF overlineCommand(latex, i, <<>>).matched
    THEN {extractBracedContent(latex, SkipSpaces(latex, i + 9)).content}
    ELSE {}

\* the strings the iteration at a ^ or _ at index i calls
\* parseLatexRecursive on
scriptCalls(latex, i) ==
    IF i + 1 < Len(latex) /\ CharAt(latex, i + 1) = "{"
    THEN IF extractBracedContent(latex, i + 1).found
         THEN {extractBracedContent(latex, i + 1).content}
         ELSE {}
    ELSE IF i + 1 < Len(latex) /\ commandMatch(latex, i + 1) > 0
    THEN {Substring(latex, i + 1, i + 1 + commandMatch(latex, i + 1))}
    ELSE {}

\* the strings the iteration at index i calls parseLatexRecursive on
recursiveCalls(latex, i) ==
    IF CharAt(latex, i) = "\\" THEN backslashCalls(latex, i)
    ELSE IF CharAt(latex, i) \in {"^", "_"} THEN scriptCalls(latex, i)
    ELSE {}

\* -------------------------------------------------------------------------
\* GeminiService: models, stored settings, one API request
\* -------------------------------------------------------------------------

\* the ids of MODELS, in the order of the list
MODELS == <<"gemini-2.5-flash", "gemini-2.5-pro", "gemini-2.0-flash">>

\* localStorage.getItem(...) of an item that is not stored: null
NoItem == "(null)"

\* getApiKey(): localStorage.getItem(STORAGE_KEY_API) || ''
getApiKey(storedKey) == IF storedKey \in {NoItem, ""} THEN "" ELSE storedKey

\* getSelectedModel(): localStorage.getItem(STORAGE_KEY_MODEL) || MODELS[0].id
getSelectedModel(storedModel) ==
    IF storedModel \in {NoItem, ""} THEN MODELS[1] ELSE storedModel

\* a variant that does not take the selected model out of the list
unfilteredOrder(selectedModel) == <<selectedModel>> \o MODELS

\* modelOrder: [selectedModel,
\*              ...MODELS.map(m => m.id).filter(id => id !== selectedModel)]
modelOrder(selectedModel) ==
    <<selectedModel>> \o SelectSeq(MODELS, LAMBDA id : id # selectedModel)

\* a message, as its words
MissingKey == <<"API_KEY_MISSING">>

NoResponseText == <<"no", "response", "text">>

FailedToFetch == <<"Failed", "to", "fetch">>

\* errorData?.error?.message || `HTTP ${response.status}`
errorMsg(response) ==
    IF response.detail # <<>> THEN response.detail
    ELSE <<"HTTP", ToString(response.status)>>

\* the message of the Error makeApiRequest throws for a response, and <<>>
\* when it returns the text of the response
requestError(response) ==
    IF response.kind = "rejected" THEN FailedToFetch
    ELSE IF ~response.ok
    THEN IF response.status \in {401, 403}
         THEN <<"API_KEY_INVALID", ":">> \o errorMsg(response)
         ELSE IF response.status = 429
         THEN <<"RATE_LIMITED", ":">> \o errorMsg(response)
         ELSE <<"API_ERROR", ToString(response.status), ":">>
                  \o errorMsg(response)
    ELSE IF response.text = "" THEN NoResponseText
    ELSE <<>>

\* error.message.includes('API_KEY_INVALID') || error.message.includes('401')
isAuthError(message) ==
    "API_KEY_INVALID" \in Range(message) \/ "401" \in Range(message)

\* -------------------------------------------------------------------------
\* processMathFormulas: cleaning, batches, progress
\* -------------------------------------------------------------------------

\* const CONCURRENCY = 3
CONCURRENCY == 3

\* the three backticks of a markdown code fence, each written U+0060
Fence == <<"U+0060", "U+0060", "U+0060">>

Newline == <<"\n">>

\* \w
WordChars ==
    Letters \cup {"0", "1", "2", "3", "4", "5", "6", "7", "8", "9", "_"}

\* the length of the longest run of word characters from index k of s
WordRun(s, k) ==
    Least({n \in 0..Max(Len(s) - k, 0) : CharAt(s, k + n) \notin WordChars})

\* cleaned.replace(/^(fence)[\w]*\n?/, '') on a string that starts with
\* the fence
StripOpeningFence(cleaned) ==
    SubstringFrom(cleaned,
                  3 + WordRun(cleaned, 3)
                    + (IF CharAt(cleaned, 3 + WordRun(cleaned, 3)) = "\n"
                       THEN 1 ELSE 0))

\* .replace(/\n?(fence)$/, '')
StripClosingFence(cleaned) ==
    IF EndsWith(cleaned, Fence)
    THEN IF EndsWith(cleaned, Newline \o Fence)
         THEN Substring(cleaned, 0, Len(cleaned) - 4)
         ELSE Substring(cleaned, 0, Len(cleaned) - 3)
    ELSE cleaned

\* cleanGeminiResponse(response)
cleanGeminiResponse(response) ==
    IF StartsWith(Trim(response), 0, Fence)
    THEN Trim(StripClosingFence(StripOpeningFence(Trim(response))))
    ELSE Trim(Trim(response))

\* a variant whose batch is all the chunks that are left
restOfChunks(chunkCount, i) == (i + 1)..chunkCount

\* chunks.slice(i, i + CONCURRENCY), as the 1-based numbers of its chunks
batch(chunkCount, i) == (i + 1)..Min(i + CONCURRENCY, chunkCount)

\* Math.round(a / b) for a >= 0 and b > 0
RoundDiv(a, b) == (2 * a + b) \div (2 * b)

\* pct: 10 + Math.round((completedChunks / chunks.length) * 80)
chunkPct(completedChunks, chunkCount) ==
    10 + RoundDiv(completedChunks * 80, chunkCount)

\* processedTexts.join('\n\n'), from the n-th element on; an element that
\* was never assigned joins as the empty string
RECURSIVE JoinFrom(_, _)
JoinFrom(processedTexts, n) ==
    IF n > Len(processedTexts) THEN <<>>
    ELSE (IF processedTexts[n] = <<Undefined>> THEN <<>> ELSE processedTexts[n])
            \o (IF n < Len(processedTexts) THEN <<"\n", "\n">> ELSE <<>>)
            \o JoinFrom(processedTexts, n + 1)


\* -------------------------------------------------------------------------
\* PdfProcessor.autoProcess (src/js/pdf-processor.js)
\* -------------------------------------------------------------------------

\* textResult.text.replace(/\s/g, '').length
textLength(fullText) ==
    Len(SelectSeq(fullText, LAMBDA c : ~IsWhitespace(c)))

\* const hasEnoughText = textLength > (textResult.pageCount * 20)
hasEnoughText(fullText, numPages) == textLength(fullText) > numPages * 20

\* extractText: Math.round((i / pageCount) * 100) after page i
extractPct(page, numPages) == RoundDiv(page * 100, numPages)

\* ocrProcess: Math.round(10 + (i / pageCount) * 85) before page i
ocrPct(page, numPages) == RoundDiv(10 * numPages + page * 85, numPages)

\* autoProcess, the callback given to extractText:
\* 10 + Math.round(pct * 0.4)
textPhasePct(pct) == 10 + RoundDiv(pct * 4, 10)

\* autoProcess, the callback given to ocrProcess after extractText:
\* 50 + Math.round(pct * 0.5)
ocrPhasePct(pct) == 50 + RoundDiv(pct * 5, 10)

\* what ocrProcess gives its onProgress becomes, at the onProgress of
\* autoProcess: the same with forceOcr, ocrPhasePct of it without
ocrReport(forced, pct) == IF forced THEN pct ELSE ocrPhasePct(pct)

\* -------------------------------------------------------------------------
\* The app (src/unnamed/part_003): startProcessing
\* -------------------------------------------------------------------------

\* startProcessing goes on past
\* if (isProcessing || selectedFiles.length === 0) return;
mayStart(processing, files) == ~(processing \/ Len(files) = 0)

\* phase 1, one file: Math.round(pct * 0.4)
phase1Pct(pct) == RoundDiv(pct * 4, 10)

\* phase 1, several files: overall = Math.round(((fi + pct / 100) / total)
\* * 100), then Math.round(overall * 0.4); fi counts from 0
batchPct(fi, total, pct) == phase1Pct(RoundDiv(100 * fi + pct, total))

\* phase 2: 41 + Math.round(pct * 0.14)
imagePct(pct) == 41 + RoundDiv(pct * 14, 100)

\* phase 3: 56 + Math.round(pct * 0.42)
mathPct(pct) == 56 + RoundDiv(pct * 42, 100)

\* results.map(r => r.text || '').join('\n\n====\n\n')
RECURSIVE joinResults(_)
joinResults(texts) ==
    IF Len(texts) = 0 THEN <<>>
    ELSE IF Len(texts) = 1 THEN texts[1]
    ELSE texts[1] \o <<"\n", "\n", "=", "=", "=", "=", "\n", "\n">>
             \o joinResults(Tail(texts))

\* rawText.trim().length > 0 is false
Blank(someText) == Len(Trim(someText)) = 0

\* selectedFiles.splice(index, 1); index counts from 1 here
splice(files, index) ==
    [k \in 1..(Len(files) - 1) |->
        IF k < index THEN files[k] ELSE files[k + 1]]

\* the elements a sequence got at its end
Added(before, after) == SubSeq(after, Len(before) + 1, Len(after))

\* the percentages of a list, each as f maps it
Mapped(f(_), percentages) ==
    [k \in 1..Len(percentages) |-> f(percentages[k])]

\* -------------------------------------------------------------------------
\* injectImagePlaceholders (src/unnamed/part_003) and the text it is given
\* (extractText, src/js/pdf-processor.js).  A text is a sequence of lexemes:
\* "\n", " ", "---", "Trang", a digit, or a word.
\* -------------------------------------------------------------------------

Digits == {"0", "1", "2", "3", "4", "5", "6", "7", "8", "9"}

\* the lexemes \s matches
Spaces == {" ", "\n", "\t"}

\* the lexemes Trang matches under the flag i
TrangWords == {"Trang", "trang", "TRANG"}

\* the number of lexemes of s from index k on that are in the class
RunOf(s, k, class) ==
    Least({n \in 0..Max(Len(s) - k, 0) : CharAt(s, k + n) \notin class})

\* parseInt of a digit
DigitValue(d) == CHOOSE n \in 0..9 : ToString(n) = d

\* parseInt of a run of digits
RECURSIVE parseInt(_)
parseInt(digits) ==
    IF Len(digits) = 0 THEN 0
    ELSE 10 * parseInt(SubSeq(digits, 1, Len(digits) - 1))
             + DigitValue(digits[Len(digits)])

\* /---\s*Trang\s*(\d+)\s*---/i at index k of s: where the digits begin and
\* how many they are, and the length of the match; no match has length 0
MarkAt(s, k) ==
    IF CharAt(s, k) # "---" THEN [len |-> 0]
    ELSE LET t == k + 1 + RunOf(s, k + 1, Spaces) IN
         IF CharAt(s, t) \notin TrangWords THEN [len |-> 0]
         ELSE LET d == t + 1 + RunOf(s, t + 1, Spaces)
                  n == RunOf(s, d, Digits)
                  e == d + n + RunOf(s, d + n, Spaces) IN
              IF n = 0 \/ CharAt(s, e) # "---" THEN [len |-> 0]
              ELSE [len |-> e + 1 - k, digitsAt |-> d, digits |-> n]

\* /\n\n---\s*Trang\s*\d+\s*---\n\n/i at index k of s: the length of the
\* match, 0 for no match
SeparatorAt(s, k) ==
    IF /\ CharAt(s, k) = "\n"
       /\ CharAt(s, k + 1) = "\n"
       /\ MarkAt(s, k + 2).len > 0
       /\ CharAt(s, k + 2 + MarkAt(s, k + 2).len) = "\n"
       /\ CharAt(s, k + 3 + MarkAt(s, k + 2).len) = "\n"
    THEN MarkAt(s, k + 2).len + 4
    ELSE 0

\* text.split(/(\n\n---\s*Trang\s*\d+\s*---\n\n)/i): the pieces between the
\* separators, and the separators, in order
RECURSIVE splitPages(_)
splitPages(s) ==
    LET at == Least({k \in 0..Len(s) : k = Len(s) \/ SeparatorAt(s, k) > 0})
    IN IF at = Len(s) THEN <<s>>
       ELSE <<Substring(s, 0, at),
              Substring(s, at, at + SeparatorAt(s, at))>>
                \o splitPages(SubstringFrom(s, at + SeparatorAt(s, at)))

\* chunk.match(/---\s*Trang\s*(\d+)\s*---/i): the first match, of length 0
\* when there is none
sepMatch(chunk) ==
    LET at == Least({k \in 0..Len(chunk) :
                        k = Len(chunk) \/ MarkAt(chunk, k).len > 0})
    IN IF at = Len(chunk) THEN [len |-> 0]
       ELSE [len |-> MarkAt(chunk, at).len,
             page |-> parseInt(Substring(chunk, MarkAt(chunk, at).digitsAt,
                                         MarkAt(chunk, at).digitsAt
                                             + MarkAt(chunk, at).digits))]

\* byPage[page]: the images of the page, in the order of images
byPage(images, page) == SelectSeq(images, LAMBDA img : img.pageNum = page)

\* imgs.sort((a, b) => a.relY - b.relY): ascending relY, images of the same
\* relY in the order they had
sortByRelY(imgs) ==
    LET rank(k) ==
            Cardinality({j \in 1..Len(imgs) :
                            \/ imgs[j].relY < imgs[k].relY
                            \/ imgs[j].relY = imgs[k].relY /\ j < k})
    IN [r \in 1..Len(imgs) |->
           imgs[CHOOSE k \in 1..Len(imgs) : rank(k) = r - 1]]

\* imgs.sort(...).map(img => img.placeholder).join('\n')
RECURSIVE joinPlaceholders(_)
joinPlaceholders(imgs) ==
    IF Len(imgs) = 0 THEN <<>>
    ELSE IF Len(imgs) = 1 THEN <<imgs[1].placeholder>>
    ELSE <<imgs[1].placeholder, "\n">> \o joinPlaceholders(Tail(imgs))

\* the for loop over pageTexts from the piece at index at, with result and
\* currentPage as they stand
RECURSIVE injectLoop(_, _, _, _, _)
injectLoop(pageTexts, images, at, result, currentPage) ==
    IF at > Len(pageTexts) THEN result
    ELSE IF sepMatch(pageTexts[at]).len > 0
    THEN injectLoop(pageTexts, images, at + 1, result \o pageTexts[at],
                    sepMatch(pageTexts[at]).page)
    ELSE IF Len(byPage(images, currentPage)) > 0
    THEN injectLoop(pageTexts, images, at + 1,
                    result
                        \o joinPlaceholders(
                               sortByRelY(byPage(images, currentPage)))
                        \o <<"\n", "\n">> \o pageTexts[at],
                    currentPage)
    ELSE injectLoop(pageTexts, images, at + 1, result \o pageTexts[at],
                    currentPage)

injectImagePlaceholders(someText, images) ==
    IF Len(images) = 0 THEN someText
    ELSE injectLoop(splitPages(someText), images, 1, <<>>, 1)

\* extractText: '\n\n--- Trang ' + i + ' ---\n\n'
pageSeparator(page) ==
    <<"\n", "\n", "---", " ", "Trang", " ", ToString(page), " ", "---",
      "\n", "\n">>

\* extractText: fullText after the pages 1..upTo, of the trimmed page texts
RECURSIVE fullText(_, _)
fullText(pages, upTo) ==
    IF upTo = 0 THEN <<>>
    ELSE fullText(pages, upTo - 1)
             \o (IF upTo > 1 THEN pageSeparator(upTo) ELSE <<>>)
             \o pages[upTo]

\* extractImages: the placeholder of the image id of a page
placeholderOf(page, id) ==
    "[[IMG:" \o ToString(page) \o ":" \o ToString(id) \o "]]"

\* -------------------------------------------------------------------------
\* mergeOverlappingRegions (src/js/pdf-processor.js)
\* -------------------------------------------------------------------------

\* const overlapX = a.x < b.x + b.width + gap && a.x + a.width + gap > b.x
overlapX(a, b, gap) ==
    a.x < b.x + b.width + gap /\ a.x + a.width + gap > b.x

\* const overlapY = a.y < b.y + b.height + gap && a.y + a.height + gap > b.y
overlapY(a, b, gap) ==
    a.y < b.y + b.height + gap /\ a.y + a.height + gap > b.y

\* a merge that keeps the first region as it is
keepFirst(a, b) == a

\* the bounding box { x: nx, y: ny, width: nw, height: nh } of a and b
boundingBox(a, b) ==
    [x |-> Min(a.x, b.x),
     y |-> Min(a.y, b.y),
     width |-> Max(a.x + a.width, b.x + b.width) - Min(a.x, b.x),
     height |-> Max(a.y + a.height, b.y + b.height) - Min(a.y, b.y)]

\* the for loop over j from j on, for the region a as it stands: every
\* region not used that a overlaps or is near is merged into a and marked
RECURSIVE innerLoop(_, _, _, _, _, _)
innerLoop(merged, gap, a, j, used, changed) ==
    IF j > Len(merged) THEN [a |-> a, used |-> used, changed |-> changed]
    ELSE IF ~used[j] /\ overlapX(a, merged[j], gap)
                     /\ overlapY(a, merged[j], gap)
    THEN innerLoop(merged, gap, boundingBox(a, merged[j]), j + 1,
                   [used EXCEPT ![j] = TRUE], TRUE)
    ELSE innerLoop(merged, gap, a, j + 1, used, changed)

\* the for loop over i from i on: result and changed at its end
RECURSIVE outerLoop(_, _, _, _, _, _)
outerLoop(merged, gap, i, used, result, changed) ==
    IF i > Len(merged) THEN [result |-> result, changed |-> changed]
    ELSE IF used[i]
    THEN outerLoop(merged, gap, i + 1, used, result, changed)
    ELSE outerLoop(merged, gap, i + 1,
                   innerLoop(merged, gap, merged[i], i + 1, used,
                             changed).used,
                   Append(result,
                          innerLoop(merged, gap, merged[i], i + 1, used,
                                    changed).a),
                   innerLoop(merged, gap, merged[i], i + 1, used,
                             changed).changed)

\* one turn of the while loop: result and changed at its end
mergePass(merged, gap) ==
    outerLoop(merged, gap, 1, [k \in 1..Len(merged) |-> FALSE], <<>>, FALSE)
\* -------------------------------------------------------------------------
\* The calls, as a state machine
\* -------------------------------------------------------------------------

VARIABLES
    pc,          \* where the call in progress stands
    latex,       \* parseLatexRecursive: the formula of the outermost call
    i,           \* parseLatexRecursive: its scan index
    textBuffer,  \* parseLatexRecursive: its pending text
    nodes,       \* parseLatexRecursive: the nodes it has emitted so far
    braceText,   \* extractBracedContent: the argument text
    startIndex,  \* extractBracedContent: the argument startIndex
    extracted,   \* extractBracedContent: the value returned
    text,        \* parseMathInText: the argument text
    mathParts,   \* parseMathInText: the parts the text is split into
    partIdx,     \* parseMathInText: the number of parts handled so far
    result,      \* parseMathInText: the runs pushed so far
    storedKey,   \* localStorage: the item gemini_api_key
    storedModel, \* localStorage: the item gemini_model
    modelIdx,    \* callGemini: the number of models the for loop is done with
    requests,    \* callGemini: the API requests made so far, in order
    lastError,   \* callGemini: the message of the last error caught
    settled,     \* callGemini: what the call returned or threw
    rawBlank,        \* processMathFormulas: rawText is empty or blank
    chunkCount,      \* processMathFormulas: chunks.length
    batchStart,      \* processMathFormulas: i of the for loop
    chunkState,      \* processMathFormulas: where each chunk's request stands
    geminiResults,   \* processMathFormulas: what callGemini returned per chunk
    processedTexts,  \* processMathFormulas: the array processedTexts
    completedChunks, \* processMathFormulas: the counter completedChunks
    mathProgress,    \* processMathFormulas: the percentages given to onProgress
    mathPc,          \* processMathFormulas: where the call stands
    mathResult,      \* processMathFormulas: what the call returned or threw
    forceOcr,        \* autoProcess: options.forceOcr
    pageCount,       \* autoProcess: pdf.numPages of the file
    pdfText,         \* autoProcess: the text layer of the file
    ocrConfidence,   \* autoProcess: the mean confidence Tesseract reports
    pagesDone,       \* autoProcess: the pages the running operation is past
    ranExtract,      \* autoProcess: extractText has been called
    ranOcr,          \* autoProcess: ocrProcess has been called
    autoProgress,    \* autoProcess: the percentages given to onProgress
    autoPc,          \* autoProcess: where the call stands
    autoResult,      \* autoProcess: what the call returned or threw
    isProcessing,    \* app: the flag isProcessing
    selectedFiles,   \* app: the array selectedFiles
    keepImages,      \* app: the toggle keepImagesToggle
    useAiMath,       \* app: aiMathToggle is checked and an API key is stored
    clicks,          \* app: the calls of startProcessing so far
    appPc,           \* startProcessing: where the run stands
    batchFiles,      \* processBatch: fileArray
    batchTexts,      \* processBatch: the text of each result so far
    phase1File,      \* startProcessing: the file given to autoProcess
    phase2File,      \* startProcessing: the file given to extractImages
    imagePage,       \* extractImages: pageNum of its for loop
    rawText,         \* startProcessing: rawText
    progressLog,     \* updateProgress: the percentages it was given, in order
    outcome,         \* startProcessing: how the run ended
    pages,           \* extractText: the trimmed text of each page
    images,          \* injectImagePlaceholders: the argument images
    injectPc,        \* injectImagePlaceholders: where the call stands
    injected,        \* injectImagePlaceholders: the text returned
    regions,         \* mergeOverlappingRegions: the argument regions
    gap,             \* mergeOverlappingRegions: the argument gap
    merged,          \* mergeOverlappingRegions: the array merged
    changed,         \* mergeOverlappingRegions: the flag changed
    mergePc          \* mergeOverlappingRegions: where the call stands

vars ==
    <<pc, latex, i, textBuffer, nodes, braceText, startIndex, extracted,
      text, mathParts, partIdx, result,
      storedKey, storedModel, modelIdx, requests, lastError, settled,
      rawBlank, chunkCount, batchStart, chunkState, geminiResults,
      processedTexts, completedChunks, mathProgress, mathPc, mathResult,
      forceOcr, pageCount, pdfText, ocrConfidence, pagesDone, ranExtract,
      ranOcr, autoProgress, autoPc, autoResult,
      isProcessing, selectedFiles, keepImages, useAiMath, clicks, appPc,
      batchFiles, batchTexts, phase1File, phase2File, imagePage, rawText,
      progressLog, outcome,
      pages, images, injectPc, injected,
      regions, gap, merged, changed, mergePc>>

parseVars == <<latex, i, textBuffer, nodes>>

braceVars == <<braceText, startIndex, extracted>>

segmentVars == <<text, mathParts, partIdx, result>>

storageVars == <<storedKey, storedModel>>

geminiVars == <<storageVars, modelIdx, requests, lastError, settled>>

mathVars ==
    <<rawBlank, chunkCount, batchStart, chunkState, geminiResults,
      processedTexts, completedChunks, mathProgress, mathPc, mathResult>>

autoVars ==
    <<forceOcr, pageCount, pdfText, ocrConfidence, pagesDone, ranExtract,
      ranOcr, autoProgress, autoPc, autoResult>>

appVars ==
    <<isProcessing, selectedFiles, keepImages, useAiMath, clicks, appPc,
      batchFiles, batchTexts, phase1File, phase2File, imagePage, rawText,
      progressLog, outcome>>

injectVars == <<pages, images, injectPc, injected>>

mergeVars == <<regions, gap, merged, changed, mergePc>>

\* the variables of the calls modelled after the app
lastVars == <<injectVars, mergeVars>>

\* the variables of the calls modelled after processMathFormulas
laterVars == <<autoVars, appVars, lastVars>>

\* the variables of the calls modelled after callGemini
restVars == <<mathVars, laterVars>>

\* none of those calls is in progress
MathIdle ==
    /\ rawBlank = FALSE
    /\ chunkCount = 0
    /\ batchStart = 0
    /\ chunkState = <<>>
    /\ geminiResults = <<>>
    /\ processedTexts = <<>>
    /\ completedChunks = 0
    /\ mathProgress = <<>>
    /\ mathPc = "idle"
    /\ mathResult = [found |-> FALSE]

AutoIdle ==
    /\ forceOcr = FALSE
    /\ pageCount = 0
    /\ pdfText = <<>>
    /\ ocrConfidence = 0
    /\ pagesDone = 0
    /\ ranExtract = FALSE
    /\ ranOcr = FALSE
    /\ autoProgress = <<>>
    /\ autoPc = "idle"
    /\ autoResult = [found |-> FALSE]

AppIdle ==
    /\ isProcessing = FALSE
    /\ selectedFiles = <<>>
    /\ keepImages = FALSE
    /\ useAiMath = FALSE
    /\ clicks = 0
    /\ appPc = "idle"
    /\ batchFiles = <<>>
    /\ batchTexts = <<>>
    /\ phase1File = "(none)"
    /\ phase2File = "(none)"
    /\ imagePage = 0
    /\ rawText = <<>>
    /\ progressLog = <<>>
    /\ outcome = "none"

InjectIdle ==
    /\ pages = <<>>
    /\ images = <<>>
    /\ injectPc = "idle"
    /\ injected = <<>>

MergeIdle ==
    /\ regions = <<>>
    /\ gap = 0
    /\ merged = <<>>
    /\ changed = FALSE
    /\ mergePc = "idle"

LastIdle == InjectIdle /\ MergeIdle

LaterIdle == AutoIdle /\ AppIdle /\ LastIdle

RestIdle == MathIdle /\ LaterIdle

\* the longest formula, in tokens
MaxTokens == 3

\* the longest text handed to extractBracedContent, in characters
MaxBraceLen == 5

RECURSIVE Flatten(_)
Flatten(toks) ==
    IF toks = <<>> THEN <<>> ELSE Head(toks) \o Flatten(Tail(toks))

\* the strings made of at most n tokens of T
Inputs(T, n) == {Flatten(toks) : toks \in UNION {[1..m -> T] : m \in 0..n}}

Braced(s) == <<"{">> \o s \o <<"}">>

DoubleBackslash == <<"\\", "\\">>

FracTokens ==
    {FracCmd, DfracCmd, Braced(<<"1">>), <<" ">> \o Braced(<<"x", "^", "2">>),
     Braced(<<"a">> \o Braced(<<"b">>)), <<"{">>, <<"}">>, <<"^">>, <<"x">>}

ScriptTokens ==
    {<<"x">>, <<"^">>, <<"_">>, <<"2">>, Braced(<<"y", "^", "2">>), <<"{">>,
     <<"\\", "a", "l", "p", "h", "a">>, <<"\\">>, <<" ">>}

SqrtTokens ==
    {SqrtCmd, <<"[", "3", "]">>, <<"[", "]">>, Braced(<<"8">>),
     Braced(<<"x", "^", "2">>), <<"{">>, <<"[">>, <<"x">>, <<"^">>}

CasesTokens ==
    {BeginCases, BeginCases \o <<"x", "=", "1">>,
     DoubleBackslash \o <<"y", "=", "2">>, DoubleBackslash, EndCases,
     <<"\\", "l", "e", " ", "b">>,
     FracCmd \o Braced(<<"1">>) \o Braced(<<"2">>), <<" ">>, <<"^", "2">>}

FallbackTokens ==
    {FracCmd, DfracCmd, SqrtCmd, WidehatCmd, TextCmd, OverlineCmd,
     Braced(<<"1">>), <<"{">>, <<"[", "3", "]">>, <<" ">>, <<"^">>}

TextTokens ==
    {TextCmd, Braced(<<"x", "^", "2">>),
     Braced(<<"\\", "a", "l", "p", "h", "a">>),
     Braced(FracCmd \o Braced(<<"1">>) \o Braced(<<"2">>)),
     <<" ">>, <<"x">>, <<"{">>, <<"^">>, <<"\\", "a", "l", "p", "h", "a">>}

\* the letters and the operator that make up the commands of no handler
UnknownTokens == {<<"i">>, <<"n">>, <<"t">>, <<"o">>, <<"p">>, <<"f">>, <<"^">>}

\* a backslash and at most MaxTokens of these
UnknownInputs == {<<"\\">> \o w : w \in Inputs(UnknownTokens, MaxTokens)}

LoopTokens ==
    {FracCmd, SqrtCmd \o <<"[", "3", "]">>, Braced(<<"1">>), <<"^">>,
     BeginCases \o <<"x">>, EndCases, OverlineCmd, WidehatCmd,
     <<"\\", "a", "l", "p", "h", "a">>}

SegmentTokens ==
    {<<"*", "*", "b", "o", "l", "d", "*", "*">>, <<" ", "a", "n", "d", " ">>,
     <<"$", "x", "^", "2", "$">>, Dollar, DoubleDollar, Star, <<" ">>,
     <<"*", "i", "*">>, <<"a">>, <<"a", "$", "b">>}

SymbolInputs ==
    {symbolKeys[n] : n \in 1..Len(symbolKeys)}
        \cup {symbolKeys[n] \o <<"^", "2">> : n \in 1..Len(symbolKeys)}
        \cup {symbolKeys[n] \o <<" ", "b">> : n \in 1..Len(symbolKeys)}

BraceTexts == Inputs({<<"{">>, <<"}">>, <<"a">>}, MaxBraceLen)

\* no call of extractBracedContent in progress
BraceIdle ==
    /\ braceText = <<>>
    /\ startIndex = 0
    /\ extracted = Null

\* no call of parseLatexRecursive in progress
ParseIdle ==
    /\ latex = <<>>
    /\ i = 0
    /\ textBuffer = <<>>
    /\ nodes = <<>>

\* no call of parseMathInText in progress
SegmentIdle ==
    /\ text = <<>>
    /\ mathParts = <<>>
    /\ partIdx = 0
    /\ result = <<>>

\* no call of callGemini in progress, and nothing stored
GeminiIdle ==
    /\ storedKey = NoItem
    /\ storedModel = NoItem
    /\ modelIdx = 0
    /\ requests = <<>>
    /\ lastError = <<>>
    /\ settled = Null

\* parseLatexRecursive(formula) has been called: const nodes = []; let i = 0;
\* let textBuffer = ""
ParseCalled(formulas) ==
    /\ pc = "scan"
    /\ latex \in formulas
    /\ i = 0
    /\ textBuffer = <<>>
    /\ nodes = <<>>
    /\ BraceIdle
    /\ SegmentIdle
    /\ GeminiIdle
    /\ RestIdle

InitFrac == ParseCalled(Inputs(FracTokens, MaxTokens))

InitScript == ParseCalled(Inputs(ScriptTokens, MaxTokens))

InitSqrt == ParseCalled(Inputs(SqrtTokens, MaxTokens))

InitCases == ParseCalled(Inputs(CasesTokens, MaxTokens))

InitFallback == ParseCalled(Inputs(FallbackTokens, MaxTokens))

InitSymbols == ParseCalled(SymbolInputs)

InitUnknown == ParseCalled(UnknownInputs)

InitLoop == ParseCalled(Inputs(LoopTokens, MaxTokens))

InitText == ParseCalled(Inputs(TextTokens, MaxTokens))

\* the state of the scan of the outermost call
Scan == ScanState(i, textBuffer, nodes)

\* the scan goes on from the state an iteration gives
Iterate(next) ==
    /\ i' = next.i
    /\ textBuffer' = next.textBuffer
    /\ nodes' = next.nodes
    /\ UNCHANGED <<pc, latex, braceVars, segmentVars, geminiVars, restVars>>

\* an iteration of the scan loop at a backslash
ScanBackslash ==
    /\ pc = "scan"
    /\ i < Len(latex)
    /\ CharAt(latex, i) = "\\"
    /\ Iterate(backslashBranch(latex, Scan))

\* an iteration of the scan loop at ^ or _
ScanScript ==
    /\ pc = "scan"
    /\ i < Len(latex)
    /\ CharAt(latex, i) \in {"^", "_"}
    /\ Iterate(scriptBranch(latex, Scan))

\* an iteration of the scan loop at any other character
ScanPlain ==
    /\ pc = "scan"
    /\ i < Len(latex)
    /\ CharAt(latex, i) \notin {"\\", "^", "_"}
    /\ Iterate(plainBranch(latex, Scan))

\* the loop has ended: the last flushBuffer, and return nodes
ReturnNodes ==
    /\ pc = "scan"
    /\ ~(i < Len(latex))
    /\ nodes' = flushBuffer(nodes, textBuffer)
    /\ textBuffer' = <<>>
    /\ pc' = "returned"
    /\ UNCHANGED <<latex, i, braceVars, segmentVars, geminiVars, restVars>>

NextParse == ScanBackslash \/ ScanScript \/ ScanPlain \/ ReturnNodes

SpecFrac == InitFrac /\ [][NextParse]_vars

SpecScript == InitScript /\ [][NextParse]_vars

SpecSqrt == InitSqrt /\ [][NextParse]_vars

SpecCases == InitCases /\ [][NextParse]_vars

SpecFallback == InitFallback /\ [][NextParse]_vars

SpecSymbols == InitSymbols /\ [][NextParse]_vars

SpecUnknown == InitUnknown /\ [][NextParse]_vars

SpecText == InitText /\ [][NextParse]_vars

\* the call is synchronous code: it runs on as long as it has a step to
\* take.  This is weak fairness of NextParse, WF_vars(NextParse), written out
\* as "infinitely often disabled or infinitely often taken", with pc = "scan"
\* for ENABLED <<NextParse>>_vars: in every state with pc = "scan" one of the
\* four guards holds, and its step changes i or pc
RunsOn == []<>(pc # "scan") \/ []<><<NextParse>>_vars

SpecLoop == InitLoop /\ [][NextParse]_vars /\ RunsOn

\* extractBracedContent(braceText, startIndex) has been called
InitBrace ==
    /\ pc = "extract"
    /\ braceText \in BraceTexts
    /\ startIndex \in 0..(Len(braceText) + 1)
    /\ extracted = Null
    /\ ParseIdle
    /\ SegmentIdle
    /\ GeminiIdle
    /\ RestIdle

\* the call runs to its return
ExtractBraced ==
    /\ pc = "extract"
    /\ extracted' = extractBracedContent(braceText, startIndex)
    /\ pc' = "extracted"
    /\ UNCHANGED <<braceText, startIndex, parseVars, segmentVars, geminiVars,
                   restVars>>

NextBrace == ExtractBraced

SpecBrace == InitBrace /\ [][NextBrace]_vars


\* parseMathInText(text) has been called
InitSegment ==
    /\ pc = "segment"
    /\ text \in Inputs(SegmentTokens, MaxTokens)
    /\ mathParts = <<>>
    /\ partIdx = 0
    /\ result = <<>>
    /\ ParseIdle
    /\ BraceIdle
    /\ GeminiIdle
    /\ RestIdle

\* const mathParts = text.split(...); const result = []
SplitText ==
    /\ pc = "segment"
    /\ mathParts' = SplitMath(text)
    /\ partIdx' = 0
    /\ result' = <<>>
    /\ pc' = "parts"
    /\ UNCHANGED <<text, parseVars, braceVars, geminiVars, restVars>>

\* the forEach goes on to the next part, after pushing runs
PushRuns(runs) ==
    /\ result' = result \o runs
    /\ partIdx' = partIdx + 1
    /\ UNCHANGED <<pc, text, mathParts, parseVars, braceVars, geminiVars,
                   restVars>>

\* an iteration of mathParts.forEach on a part that is math
MathPart ==
    /\ pc = "parts"
    /\ partIdx < Len(mathParts)
    /\ isMath(Trim(mathParts[partIdx + 1]))
    /\ PushRuns(<<mathPart(Trim(mathParts[partIdx + 1]))>>)

\* an iteration of mathParts.forEach on a part that is not math
TextPart ==
    /\ pc = "parts"
    /\ partIdx < Len(mathParts)
    /\ ~isMath(Trim(mathParts[partIdx + 1]))
    /\ PushRuns(textPart(mathParts[partIdx + 1]))

\* return result
ReturnResult ==
    /\ pc = "parts"
    /\ partIdx = Len(mathParts)
    /\ pc' = "segmented"
    /\ UNCHANGED <<segmentVars, parseVars, braceVars, geminiVars, restVars>>

NextSegment == SplitText \/ MathPart \/ TextPart \/ ReturnResult

SpecSegment == InitSegment /\ [][NextSegment]_vars

\* an iteration of mathParts.forEach on a part that is math, when the try
\* block throws (a constructor of the docx library, or the call stack running
\* out in parseLatexRecursive): the catch block pushes the fallback run
MathPartThrows ==
    /\ pc = "parts"
    /\ partIdx < Len(mathParts)
    /\ isMath(Trim(mathParts[partIdx + 1]))
    /\ PushRuns(<<caughtRun(Trim(mathParts[partIdx + 1]))>>)

NextSegmentCatch == NextSegment \/ MathPartThrows

\* parseMathInText when the try block of a math part may throw
SpecSegmentCatch == InitSegment /\ [][NextSegmentCatch]_vars


\* -------------------------------------------------------------------------
\* callGemini
\* -------------------------------------------------------------------------

\* the API keys localStorage may hold
StoredKeys == {NoItem, "", "key"}

\* the model ids localStorage may hold: none, one of MODELS, or the id of a
\* model that is no longer in the list
StoredModels == {NoItem} \cup Range(MODELS) \cup {"gemini-1.5-flash"}

\* what fetch may give for one request: a rejection, a response that is not
\* ok, with or without a message in its body, or an ok response with or
\* without text
Responses ==
    {[kind |-> "rejected"]}
        \cup [kind : {"response"}, ok : {FALSE},
              status : {401, 403, 429, 500},
              detail : {<<>>, <<"quota", "exceeded">>,
                        <<"upstream", "status", "401">>}]
        \cup [kind : {"response"}, ok : {TRUE},
              text : {"", "formulas", "answer"}]

\* callGemini(prompt) has been called
InitGemini ==
    /\ pc = "call"
    /\ storedKey \in StoredKeys
    /\ storedModel \in StoredModels
    /\ modelIdx = 0
    /\ requests = <<>>
    /\ lastError = <<>>
    /\ settled = Null
    /\ ParseIdle
    /\ BraceIdle
    /\ SegmentIdle
    /\ RestIdle

\* the call returns a value, or throws an Error with a message
Returned(value) == [threw |-> FALSE, value |-> value]

Thrown(message) == [threw |-> TRUE, message |-> message]

\* the order of the models of the call in progress
Order == modelOrder(getSelectedModel(storedModel))

\* const apiKey = getApiKey(); if (!apiKey) throw ...; the fallback order is
\* built and the for loop is entered
ReadSettings ==
    /\ pc = "call"
    /\ IF getApiKey(storedKey) = ""
       THEN /\ settled' = Thrown(MissingKey)
            /\ pc' = "rejected"
       ELSE /\ settled' = settled
            /\ pc' = "loop"
    /\ UNCHANGED <<storageVars, modelIdx, requests, lastError,
                   parseVars, braceVars, segmentVars, restVars>>

\* an iteration of the for loop begins: makeApiRequest(modelId, ...) is
\* called and awaited
SendRequest ==
    /\ pc = "loop"
    /\ modelIdx < Len(Order)
    /\ requests' = Append(requests, [modelId |-> Order[modelIdx + 1],
                                     state |-> "pending", text |-> ""])
    /\ pc' = "awaiting"
    /\ UNCHANGED <<storageVars, modelIdx, lastError, settled,
                   parseVars, braceVars, segmentVars, restVars>>

\* the requests with the last one, which was pending, now in the given state
Answered(state, value) ==
    [requests EXCEPT ![Len(requests)] =
        [modelId |-> requests[Len(requests)].modelId,
         state |-> state, text |-> value]]

\* the awaited request gives its text: return result
RequestReturns ==
    /\ pc = "awaiting"
    /\ \E response \in Responses :
          /\ requestError(response) = <<>>
          /\ requests' = Answered("succeeded", response.text)
          /\ settled' = Returned(response.text)
    /\ pc' = "resolved"
    /\ UNCHANGED <<storageVars, modelIdx, lastError,
                   parseVars, braceVars, segmentVars, restVars>>

\* the awaited request throws: the catch block keeps the error, throws it
\* again when it is an auth error, and else goes on to the next model
RequestThrows ==
    /\ pc = "awaiting"
    /\ \E response \in Responses :
          /\ requestError(response) # <<>>
          /\ requests' = Answered("failed", "")
          /\ lastError' = requestError(response)
          /\ IF isAuthError(requestError(response))
             THEN /\ settled' = Thrown(requestError(response))
                  /\ pc' = "rejected"
                  /\ modelIdx' = modelIdx
             ELSE /\ settled' = settled
                  /\ pc' = "loop"
                  /\ modelIdx' = modelIdx + 1
    /\ UNCHANGED <<storageVars, parseVars, braceVars, segmentVars, restVars>>

\* the for loop is over: throw lastError || new Error(...)
ThrowLastError ==
    /\ pc = "loop"
    /\ modelIdx >= Len(Order)
    /\ settled' = Thrown(IF lastError # <<>> THEN lastError
                         ELSE <<"all", "models", "failed">>)
    /\ pc' = "rejected"
    /\ UNCHANGED <<storageVars, modelIdx, requests, lastError,
                   parseVars, braceVars, segmentVars, restVars>>

NextGemini ==
    \/ ReadSettings
    \/ SendRequest
    \/ RequestReturns
    \/ RequestThrows
    \/ ThrowLastError

SpecGemini == InitGemini /\ [][NextGemini]_vars

\* -------------------------------------------------------------------------
\* processMathFormulas
\* -------------------------------------------------------------------------

\* the most chunks of a text
MaxChunks == 5

\* a rawText that is blank
BlankText == <<" ">>

\* an element of processedTexts that was never assigned
Unassigned == <<Undefined>>

\* what callGemini may return for the k-th chunk: the text with space around
\* it, or wrapped in a markdown code fence
GeminiTexts(k) ==
    {<<" ", "r", ToString(k), "\n">>,
     Fence \o <<"t", "e", "x", "\n", "r", ToString(k), "\n">> \o Fence}

\* the message of the error callGemini may throw for a chunk
ChunkError == <<"RATE_LIMITED", ":", "quota", "exceeded">>

\* the variables no step of processMathFormulas changes
outsideMath ==
    <<pc, parseVars, braceVars, segmentVars, geminiVars, laterVars>>

\* processMathFormulas(rawText, onProgress) has been called
InitMath ==
    /\ mathPc = "called"
    /\ rawBlank \in BOOLEAN
    /\ chunkCount \in (IF rawBlank THEN {0} ELSE 1..MaxChunks)
    /\ batchStart = 0
    /\ chunkState = <<>>
    /\ geminiResults = <<>>
    /\ processedTexts = <<>>
    /\ completedChunks = 0
    /\ mathProgress = <<>>
    /\ mathResult = Null
    /\ pc = "idle"
    /\ ParseIdle
    /\ BraceIdle
    /\ SegmentIdle
    /\ GeminiIdle
    /\ LaterIdle

\* batch.map(async (chunk, batchIndex) => ...) for the batch at index start:
\* each async function runs to its await callGemini(...)
SendBatch(start) ==
    [k \in 1..chunkCount |->
        IF k \in batch(chunkCount, start) THEN "inflight" ELSE chunkState[k]]

\* the call begins: a blank rawText is returned as it is; else onProgress(10),
\* the chunks, and the first batch, up to await Promise.all(promises)
BeginMathStep ==
    /\ mathPc = "called"
    /\ IF rawBlank
       THEN /\ mathResult' = Returned(BlankText)
            /\ mathPc' = "resolved"
            /\ UNCHANGED <<chunkState, geminiResults, processedTexts,
                           mathProgress>>
       ELSE /\ mathProgress' = <<10>>
            /\ chunkState' =
                   [k \in 1..chunkCount |->
                       IF k \in batch(chunkCount, 0)
                       THEN "inflight" ELSE "unsent"]
            /\ geminiResults' = [k \in 1..chunkCount |-> Unassigned]
            /\ processedTexts' = [k \in 1..chunkCount |-> Unassigned]
            /\ mathPc' = "awaiting"
            /\ mathResult' = mathResult
    /\ UNCHANGED <<rawBlank, chunkCount, batchStart, completedChunks>>

\* callGemini returns one of the responses for the k-th chunk: the response
\* is cleaned and stored at globalIndex, the counter goes up, and onProgress
\* is called
ChunkReturnsWith(k, responses) ==
    /\ chunkState[k] = "inflight"
    /\ \E response \in responses :
          /\ geminiResults' = [geminiResults EXCEPT ![k] = response]
          /\ processedTexts' =
                 [processedTexts EXCEPT ![k] = cleanGeminiResponse(response)]
    /\ chunkState' = [chunkState EXCEPT ![k] = "done"]
    /\ completedChunks' = completedChunks + 1
    /\ mathProgress' =
           Append(mathProgress, chunkPct(completedChunks + 1, chunkCount))
    /\ UNCHANGED <<rawBlank, chunkCount, batchStart, mathPc, mathResult>>

ChunkReturnsStep(k) == ChunkReturnsWith(k, GeminiTexts(k))

\* callGemini throws for the k-th chunk: its promise rejects, and with it
\* Promise.all and the call, when the call is still waiting for the batch
ChunkThrowsStep(k) ==
    /\ chunkState[k] = "inflight"
    /\ chunkState' = [chunkState EXCEPT ![k] = "failed"]
    /\ IF mathPc = "awaiting"
       THEN /\ mathPc' = "rejected"
            /\ mathResult' = Thrown(ChunkError)
       ELSE UNCHANGED <<mathPc, mathResult>>
    /\ UNCHANGED <<rawBlank, chunkCount, batchStart, geminiResults,
                   processedTexts, completedChunks, mathProgress>>

\* every promise of the batch is fulfilled
BatchFulfilled ==
    /\ mathPc = "awaiting"
    /\ \A k \in batch(chunkCount, batchStart) : chunkState[k] = "done"

\* Promise.all of a batch is fulfilled and chunks are left: i += CONCURRENCY
\* and the next batch is sent
NextBatchStep ==
    /\ BatchFulfilled
    /\ batchStart + CONCURRENCY < chunkCount
    /\ batchStart' = batchStart + CONCURRENCY
    /\ chunkState' = SendBatch(batchStart + CONCURRENCY)
    /\ UNCHANGED <<rawBlank, chunkCount, geminiResults, processedTexts,
                   completedChunks, mathProgress, mathPc, mathResult>>

\* Promise.all of the last batch is fulfilled: onProgress(95) and
\* return processedTexts.join('\n\n')
ReturnJoinedStep ==
    /\ BatchFulfilled
    /\ ~(batchStart + CONCURRENCY < chunkCount)
    /\ batchStart' = batchStart + CONCURRENCY
    /\ mathProgress' = Append(mathProgress, 95)
    /\ mathResult' = Returned(JoinFrom(processedTexts, 1))
    /\ mathPc' = "resolved"
    /\ UNCHANGED <<rawBlank, chunkCount, chunkState, geminiResults,
                   processedTexts, completedChunks>>

BeginMath == BeginMathStep /\ UNCHANGED outsideMath

ChunkReturns ==
    (\E k \in DOMAIN chunkState : ChunkReturnsStep(k)) /\ UNCHANGED outsideMath

ChunkThrows ==
    (\E k \in DOMAIN chunkState : ChunkThrowsStep(k)) /\ UNCHANGED outsideMath

NextBatch == NextBatchStep /\ UNCHANGED outsideMath

ReturnJoined == ReturnJoinedStep /\ UNCHANGED outsideMath

NextMath ==
    \/ BeginMath
    \/ ChunkReturns
    \/ ChunkThrows
    \/ NextBatch
    \/ ReturnJoined

SpecMath == InitMath /\ [][NextMath]_vars

\* -------------------------------------------------------------------------
\* autoProcess
\* -------------------------------------------------------------------------

\* the most pages of a file
MaxPages == 3

\* a text layer of n characters that are not white space, with a space after
\* every fifth
PdfText(n) == [k \in 1..(n + n \div 5) |-> IF k % 6 = 0 THEN " " ELSE "x"]

\* the lengths of the text layers: about 20 characters a page
TextLengths == {20 * p + d : p \in 0..MaxPages, d \in {-1, 0, 1}} \cap Nat

\* the mean confidences Tesseract may report
Confidences == {80, 99}

\* the message of the error pdf.js or Tesseract may throw
PdfError == <<"Invalid", "PDF", "structure">>

\* the variables no step of autoProcess changes
outsideAuto ==
    <<pc, parseVars, braceVars, segmentVars, geminiVars, mathVars, appVars,
      lastVars>>

\* the file and the options of a call of autoProcess
AutoInputs ==
    /\ forceOcr \in BOOLEAN
    /\ pageCount \in 1..MaxPages
    /\ pdfText \in {PdfText(n) : n \in TextLengths}
    /\ ocrConfidence \in Confidences

\* autoProcess(file, options, onProgress) has been called
AutoCalled ==
    /\ pagesDone = 0
    /\ ranExtract = FALSE
    /\ ranOcr = FALSE
    /\ autoProgress = <<>>
    /\ autoPc = "called"
    /\ autoResult = Null

InitAuto ==
    /\ AutoInputs
    /\ AutoCalled
    /\ pc = "idle"
    /\ ParseIdle
    /\ BraceIdle
    /\ SegmentIdle
    /\ GeminiIdle
    /\ MathIdle
    /\ AppIdle
    /\ LastIdle

\* ocrProcess is called: onProgress(5, ...), then await createWorker
CallOcr(progress) ==
    /\ ranOcr' = TRUE
    /\ pagesDone' = 0
    /\ autoProgress' = Append(progress, ocrReport(forceOcr, 5))
    /\ autoPc' = "ocr"

\* the call begins: with forceOcr onProgress(5) and ocrProcess, else
\* onProgress(10) and extractText
BeginAutoStep ==
    /\ autoPc = "called"
    /\ IF forceOcr
       THEN /\ CallOcr(Append(autoProgress, 5))
            /\ UNCHANGED ranExtract
       ELSE /\ ranExtract' = TRUE
            /\ autoProgress' = Append(autoProgress, 10)
            /\ autoPc' = "extracting"
            /\ UNCHANGED <<ranOcr, pagesDone>>
    /\ UNCHANGED <<forceOcr, pageCount, pdfText, ocrConfidence, autoResult>>

\* extractText is done with a page: onProgress of the share of pages done
ExtractPageStep ==
    /\ autoPc = "extracting"
    /\ pagesDone < pageCount
    /\ pagesDone' = pagesDone + 1
    /\ autoProgress' =
           Append(autoProgress,
                  textPhasePct(extractPct(pagesDone + 1, pageCount)))
    /\ UNCHANGED <<forceOcr, pageCount, pdfText, ocrConfidence, ranExtract,
                   ranOcr, autoPc, autoResult>>

\* extractText returns: with enough text the result gets confidence 99 and is
\* returned after onProgress(100); else onProgress(50) and ocrProcess
ExtractReturnsStep ==
    /\ autoPc = "extracting"
    /\ pagesDone = pageCount
    /\ IF hasEnoughText(pdfText, pageCount)
       THEN /\ autoResult' =
                   Returned([method |-> "pdf.js", confidence |-> 99,
                             text |-> pdfText])
            /\ autoProgress' = Append(autoProgress, 100)
            /\ autoPc' = "resolved"
            /\ UNCHANGED <<ranOcr, pagesDone>>
       ELSE /\ CallOcr(Append(autoProgress, 50))
            /\ UNCHANGED autoResult
    /\ UNCHANGED <<forceOcr, pageCount, pdfText, ocrConfidence, ranExtract>>

\* ocrProcess comes to a page: onProgress, then the page is rendered and
\* recognized
OcrPageStep ==
    /\ autoPc = "ocr"
    /\ pagesDone < pageCount
    /\ pagesDone' = pagesDone + 1
    /\ autoProgress' =
           Append(autoProgress,
                  ocrReport(forceOcr, ocrPct(pagesDone + 1, pageCount)))
    /\ UNCHANGED <<forceOcr, pageCount, pdfText, ocrConfidence, ranExtract,
                   ranOcr, autoPc, autoResult>>

\* ocrProcess returns after onProgress(100), and autoProcess returns its
\* result
OcrReturnsStep ==
    /\ autoPc = "ocr"
    /\ pagesDone = pageCount
    /\ autoProgress' = Append(autoProgress, ocrReport(forceOcr, 100))
    /\ autoResult' =
           Returned([method |-> "tesseract.js",
                     confidence |-> ocrConfidence,
                     text |-> <<"o", "c", "r">>])
    /\ autoPc' = "resolved"
    /\ UNCHANGED <<forceOcr, pageCount, pdfText, ocrConfidence, pagesDone,
                   ranExtract, ranOcr>>

\* pdf.js or Tesseract throws in extractText or ocrProcess, and autoProcess,
\* which catches nothing, with it
AutoThrowsStep ==
    /\ autoPc \in {"extracting", "ocr"}
    /\ autoResult' = Thrown(PdfError)
    /\ autoPc' = "rejected"
    /\ UNCHANGED <<forceOcr, pageCount, pdfText, ocrConfidence, pagesDone,
                   ranExtract, ranOcr, autoProgress>>

BeginAuto == BeginAutoStep /\ UNCHANGED outsideAuto

ExtractPage == ExtractPageStep /\ UNCHANGED outsideAuto

ExtractReturns == ExtractReturnsStep /\ UNCHANGED outsideAuto

OcrPage == OcrPageStep /\ UNCHANGED outsideAuto

OcrReturns == OcrReturnsStep /\ UNCHANGED outsideAuto

AutoThrows == AutoThrowsStep /\ UNCHANGED outsideAuto

NextAuto ==
    \/ BeginAuto
    \/ ExtractPage
    \/ ExtractReturns
    \/ OcrPage
    \/ OcrReturns
    \/ AutoThrows

SpecAuto == InitAuto /\ [][NextAuto]_vars

\* -------------------------------------------------------------------------
\* The app: the upload handlers and startProcessing
\* -------------------------------------------------------------------------

\* the most calls of startProcessing
MaxClicks == 2

\* the most files selected at a time
MaxFiles == 2

\* the most pages of a file of the app
MaxAppPages == 2

\* the files the user may pick
FileNames == {"a.pdf", "b.pdf"}

\* the text layer of the files of the app: 21 characters, enough for a file
\* of one page and too few for a file of two
AppTexts == {PdfText(21)}

\* the numbers of chunks the text of a run may split into: two batches
AppChunkCounts == {CONCURRENCY + 1}

\* the message of the error extractImages may throw
ImageError == <<"Invalid", "PDF", "structure">>

\* the variables no step of the app changes
outsideApp ==
    <<pc, parseVars, braceVars, segmentVars, geminiVars, lastVars>>

\* the variables of the app that startProcessing leaves alone once it runs
settingVars ==
    <<selectedFiles, keepImages, useAiMath, clicks, batchFiles, batchTexts,
      phase1File>>

\* the page is loaded; the file the user will pick and the text of the run are
\* as they will be found
InitApp ==
    /\ isProcessing = FALSE
    /\ selectedFiles = <<>>
    /\ keepImages \in BOOLEAN
    /\ useAiMath \in BOOLEAN
    /\ clicks = 0
    /\ appPc = "idle"
    /\ batchFiles = <<>>
    /\ batchTexts = <<>>
    /\ phase1File = "(none)"
    /\ phase2File = "(none)"
    /\ imagePage = 0
    /\ rawText = <<>>
    /\ progressLog = <<>>
    /\ outcome = "none"
    /\ forceOcr \in BOOLEAN
    /\ pageCount \in 1..MaxAppPages
    /\ pdfText \in AppTexts
    /\ ocrConfidence = 80
    /\ AutoCalled
    /\ mathPc = "called"
    /\ rawBlank = FALSE
    /\ chunkCount \in AppChunkCounts
    /\ batchStart = 0
    /\ chunkState = <<>>
    /\ geminiResults = <<>>
    /\ processedTexts = <<>>
    /\ completedChunks = 0
    /\ mathProgress = <<>>
    /\ mathResult = Null
    /\ pc = "idle"
    /\ ParseIdle
    /\ BraceIdle
    /\ SegmentIdle
    /\ GeminiIdle
    /\ LastIdle

\* the input change and the drop handlers: nothing while isProcessing; in
\* batch mode addFiles, else selectedFiles = [files[0]]
ChooseFile ==
    /\ \E file \in FileNames, batchMode \in BOOLEAN :
          IF isProcessing
          THEN UNCHANGED selectedFiles
          ELSE IF batchMode
               THEN /\ Len(selectedFiles) < MaxFiles
                    /\ file \notin Range(selectedFiles)
                    /\ selectedFiles' = Append(selectedFiles, file)
               ELSE selectedFiles' = <<file>>
    /\ UNCHANGED <<isProcessing, keepImages, useAiMath, clicks, appPc,
                   batchFiles, batchTexts, phase1File, phase2File, imagePage,
                   rawText, progressLog, outcome>>
    /\ UNCHANGED <<autoVars, mathVars, outsideApp>>

\* the remove button of a file: removeFile(index)
RemoveFile ==
    /\ \E index \in 1..Len(selectedFiles) :
          selectedFiles' = splice(selectedFiles, index)
    /\ UNCHANGED <<isProcessing, keepImages, useAiMath, clicks, appPc,
                   batchFiles, batchTexts, phase1File, phase2File, imagePage,
                   rawText, progressLog, outcome>>
    /\ UNCHANGED <<autoVars, mathVars, outsideApp>>

\* what updateProgress gets for a percentage of autoProcess: phase1Pct of it
\* with one file, batchPct with several
Report(files, done, pct) ==
    IF Len(files) = 0
    THEN phase1Pct(pct) ELSE batchPct(done, Len(files), pct)

\* a run that resets the flag at the end of the try block only
FinishInTry(log, how) ==
    /\ progressLog' = log
    /\ isProcessing' = (how # "displayed")
    /\ appPc' = "done"
    /\ outcome' = how

\* the run ends as how says: the try block is through ("displayed") or the
\* catch block has shown the error ("error"), and then the block finally
Finish(log, how) ==
    /\ progressLog' = log
    /\ isProcessing' = FALSE
    /\ appPc' = "done"
    /\ outcome' = how

\* the results are displayed after updateProgress(99)
EndRun(log, someText) ==
    /\ Finish(Append(log, 99), "displayed")
    /\ rawText' = someText
    /\ UNCHANGED <<phase2File, imagePage, mathVars>>

\* phase 3 begins: updateProgress(56) and processMathFormulas up to its await
EnterPhase3(log, someText) ==
    /\ BeginMathStep
    /\ progressLog' =
           Append(log, 56) \o Mapped(mathPct, Added(mathProgress,
                                                     mathProgress'))
    /\ appPc' = "phase3"
    /\ rawText' = someText
    /\ UNCHANGED <<isProcessing, outcome, phase2File, imagePage>>

\* the code after phase 2: phase 3 with the toggle, a key and a text that is
\* not blank, else the end of the run
AfterPhase2(log, someText) ==
    IF useAiMath /\ ~Blank(someText)
    THEN EnterPhase3(log, someText)
    ELSE EndRun(log, someText)

\* phase 2 begins: updateProgress(41) and extractImages up to its await
EnterPhase2(log, someText) ==
    /\ progressLog' = Append(log, 41)
    /\ phase2File' = selectedFiles[1]
    /\ imagePage' = 0
    /\ appPc' = "phase2"
    /\ rawText' = someText
    /\ UNCHANGED <<isProcessing, outcome, mathVars>>

\* the code after phase 1: phase 2 with the toggle and one file selected
AfterPhase1(log, someText) ==
    IF keepImages /\ Len(selectedFiles) = 1
    THEN EnterPhase2(log, someText)
    ELSE AfterPhase2(log, someText)

\* startProcessing up to its first await: the flag, updateProgress(0), and
\* autoProcess of the file, or processBatch of the files, up to its await
StartRun ==
    /\ appPc = "idle"
    /\ isProcessing' = TRUE
    /\ appPc' = "phase1"
    /\ BeginAutoStep
    /\ IF Len(selectedFiles) = 1
       THEN /\ phase1File' = selectedFiles[1]
            /\ batchFiles' = <<>>
       ELSE /\ phase1File' = "(none)"
            /\ batchFiles' = selectedFiles
    /\ progressLog' =
           <<0>> \o Mapped(LAMBDA pct : Report(batchFiles', 0, pct),
                           Added(autoProgress, autoProgress'))
    /\ UNCHANGED <<selectedFiles, keepImages, useAiMath, batchTexts,
                   phase2File, imagePage, rawText, outcome, mathVars>>

\* the button processBtn: startProcessing, which returns at once while
\* isProcessing or with no file
ClickProcess ==
    /\ clicks < MaxClicks
    /\ clicks' = clicks + 1
    /\ IF mayStart(isProcessing, selectedFiles)
       THEN StartRun
       ELSE UNCHANGED <<isProcessing, selectedFiles, keepImages, useAiMath,
                        appPc, batchFiles, batchTexts, phase1File, phase2File,
                        imagePage, rawText, progressLog, outcome, autoVars,
                        mathVars>>
    /\ UNCHANGED outsideApp

\* autoProcess goes a step on, and its onProgress reaches updateProgress
Phase1Step ==
    /\ appPc = "phase1"
    /\ \/ BeginAutoStep
       \/ ExtractPageStep
       \/ ExtractReturnsStep
       \/ OcrPageStep
       \/ OcrReturnsStep
       \/ AutoThrowsStep
    /\ progressLog' =
           progressLog \o
           Mapped(LAMBDA pct : Report(batchFiles, Len(batchTexts), pct),
                  Added(autoProgress, autoProgress'))
    /\ UNCHANGED <<isProcessing, selectedFiles, keepImages, useAiMath, clicks,
                   appPc, batchFiles, batchTexts, phase1File, phase2File,
                   imagePage, rawText, outcome>>
    /\ UNCHANGED <<mathVars, outsideApp>>

\* await autoProcess is over, one file: with its result the run goes on to
\* phase 2; its error goes to the catch block of startProcessing
Phase1Done ==
    /\ appPc = "phase1"
    /\ Len(batchFiles) = 0
    /\ \/ /\ autoPc = "resolved"
          /\ AfterPhase1(progressLog, autoResult.value.text)
       \/ /\ autoPc = "rejected"
          /\ Finish(progressLog, "error")
          /\ UNCHANGED <<phase2File, imagePage, rawText, mathVars>>
    /\ UNCHANGED <<settingVars, autoVars, outsideApp>>

\* processBatch is done with a file: its text, or '' after an error, is
\* pushed, and autoProcess is called for the next file; after the last file
\* the run goes on to phase 2
FileDone ==
    /\ appPc = "phase1"
    /\ Len(batchFiles) > 0
    /\ autoPc \in {"resolved", "rejected"}
    /\ batchTexts' =
           Append(batchTexts,
                  IF autoPc = "resolved"
                  THEN autoResult.value.text ELSE <<>>)
    /\ IF Len(batchTexts) + 1 < Len(batchFiles)
       THEN /\ pageCount' \in 1..MaxAppPages
            /\ pdfText' \in AppTexts
            /\ pagesDone' = 0
            /\ ranExtract' = FALSE
            /\ ranOcr' = FALSE
            /\ autoProgress' = <<>>
            /\ autoPc' = "called"
            /\ autoResult' = Null
            /\ UNCHANGED <<forceOcr, ocrConfidence>>
            /\ UNCHANGED <<isProcessing, appPc, phase2File, imagePage,
                           rawText, progressLog, outcome, mathVars>>
       ELSE /\ AfterPhase1(progressLog, joinResults(batchTexts'))
            /\ UNCHANGED autoVars
    /\ UNCHANGED <<selectedFiles, keepImages, useAiMath, clicks, batchFiles,
                   phase1File>>
    /\ UNCHANGED outsideApp

\* extractImages comes to a page: onProgress, then the page is analysed
ImagesPage ==
    /\ appPc = "phase2"
    /\ imagePage < pageCount
    /\ imagePage' = imagePage + 1
    /\ progressLog' =
           Append(progressLog, imagePct(extractPct(imagePage + 1, pageCount)))
    /\ UNCHANGED <<isProcessing, appPc, phase2File, rawText, outcome>>
    /\ UNCHANGED <<settingVars, autoVars, mathVars, outsideApp>>

\* extractImages returns: with images their placeholders go into rawText
ImagesDone ==
    /\ appPc = "phase2"
    /\ imagePage = pageCount
    /\ \E found \in BOOLEAN :
          AfterPhase2(progressLog,
                      IF found
                      THEN <<"[[IMG:1:1]]", "\n", "\n">> \o rawText
                      ELSE rawText)
    /\ UNCHANGED <<settingVars, autoVars, outsideApp>>

\* extractImages throws before its first page: the inner catch block shows
\* an alert and the run goes on
ImagesThrow ==
    /\ appPc = "phase2"
    /\ imagePage = 0
    /\ AfterPhase2(progressLog, rawText)
    /\ UNCHANGED <<settingVars, autoVars, outsideApp>>

\* callGemini returns for a chunk, and its onProgress reaches updateProgress
ChunkReturnsApp ==
    /\ \E k \in DOMAIN chunkState :
          ChunkReturnsWith(k, {<<"r", ToString(k)>>})
    /\ progressLog' =
           progressLog \o Mapped(mathPct, Added(mathProgress, mathProgress'))
    /\ UNCHANGED <<isProcessing, appPc, phase2File, imagePage, rawText,
                   outcome>>
    /\ UNCHANGED <<settingVars, autoVars, outsideApp>>

\* callGemini throws for a chunk: when processMathFormulas rejects with it,
\* the inner catch block keeps rawText and the results are displayed
ChunkThrowsApp ==
    /\ \E k \in DOMAIN chunkState : ChunkThrowsStep(k)
    /\ IF mathPc = "awaiting"
       THEN Finish(Append(progressLog, 99), "displayed")
       ELSE UNCHANGED <<progressLog, isProcessing, appPc, outcome>>
    /\ UNCHANGED <<phase2File, imagePage, rawText>>
    /\ UNCHANGED <<settingVars, autoVars, outsideApp>>

\* a batch of chunks is done and the next one is sent
NextBatchApp ==
    /\ NextBatchStep
    /\ UNCHANGED <<appVars, autoVars, outsideApp>>

\* processMathFormulas returns after onProgress(95), and the results are
\* displayed after updateProgress(99)
MathDone ==
    /\ ReturnJoinedStep
    /\ Finish(progressLog
                  \o Mapped(mathPct, Added(mathProgress, mathProgress'))
                  \o <<99>>,
              "displayed")
    /\ UNCHANGED <<phase2File, imagePage, rawText>>
    /\ UNCHANGED <<settingVars, autoVars, outsideApp>>

NextApp ==
    \/ ChooseFile
    \/ RemoveFile
    \/ ClickProcess
    \/ Phase1Step
    \/ Phase1Done
    \/ FileDone
    \/ ImagesPage
    \/ ImagesDone
    \/ ImagesThrow
    \/ ChunkReturnsApp
    \/ ChunkThrowsApp
    \/ NextBatchApp
    \/ MathDone

SpecApp == InitApp /\ [][NextApp]_vars

\* -------------------------------------------------------------------------
\* injectImagePlaceholders
\* -------------------------------------------------------------------------

\* the most pages of a text
MaxTextPages == 2

\* the most images of a file
MaxImages == 2

\* the trimmed texts of a page: none, a word, two lines, and a line of the
\* page that reads like the mark of a page
PageTexts ==
    {<<>>,
     <<"a">>,
     <<"a", "\n", "b">>,
     <<"see", " ", "---", " ", "Trang", " ", "1", " ", "---">>}

\* where an image may lie on its page: relY, in tenths
RelYs == {1, 5}

\* the image extractImages pushes with the id for a region of the page
Image(page, id, relY) ==
    [pageNum |-> page, id |-> id, placeholder |-> placeholderOf(page, id),
     relY |-> relY]

\* what extractImages may return for a file of n pages: the ids count up, and
\* the pages do not go down
ImageLists(n) ==
    {imgs \in UNION {[1..m -> {Image(p, 1, y) : p \in 1..n, y \in RelYs}
                               \cup {Image(p, 2, y) : p \in 1..n, y \in RelYs}]
                        : m \in 0..MaxImages} :
        /\ \A k \in DOMAIN imgs : imgs[k].id = k
        /\ \A k \in 1..(Len(imgs) - 1) : imgs[k].pageNum <= imgs[k + 1].pageNum}

\* the variables no step of injectImagePlaceholders changes
outsideInject ==
    <<pc, parseVars, braceVars, segmentVars, geminiVars, mathVars, autoVars,
      appVars, mergeVars>>

\* injectImagePlaceholders(text, images) has been called with the text of
\* the pages and the images of the file
InitInject ==
    /\ pages \in UNION {[1..n -> PageTexts] : n \in 1..MaxTextPages}
    /\ images \in ImageLists(Len(pages))
    /\ injectPc = "called"
    /\ injected = <<>>
    /\ pc = "idle"
    /\ ParseIdle
    /\ BraceIdle
    /\ SegmentIdle
    /\ GeminiIdle
    /\ MathIdle
    /\ AutoIdle
    /\ AppIdle
    /\ MergeIdle

\* the call returns
Inject ==
    /\ injectPc = "called"
    /\ injected' =
           injectImagePlaceholders(fullText(pages, Len(pages)), images)
    /\ injectPc' = "returned"
    /\ UNCHANGED <<pages, images, outsideInject>>

NextInject == Inject

SpecInject == InitInject /\ [][NextInject]_vars

\* -------------------------------------------------------------------------
\* mergeOverlappingRegions
\* -------------------------------------------------------------------------

\* the most regions of a page
MaxRegions == 3

\* the regions of a page: on two rows, at two places, and of one or two
\* cells
Rects ==
    {[x |-> x, y |-> y, width |-> w, height |-> 1] :
        x \in {0, 2}, y \in {0, 3}, w \in 1..2}

\* the gaps of a call
Gaps == {0, 1}

\* the variables no step of mergeOverlappingRegions changes
outsideMerge ==
    <<pc, parseVars, braceVars, segmentVars, geminiVars, mathVars, autoVars,
      appVars, injectVars>>

\* mergeOverlappingRegions(regions, gap) has been called
InitMerge ==
    /\ regions \in UNION {[1..n -> Rects] : n \in 0..MaxRegions}
    /\ gap \in Gaps
    /\ merged = <<>>
    /\ changed = FALSE
    /\ mergePc = "called"
    /\ pc = "idle"
    /\ ParseIdle
    /\ BraceIdle
    /\ SegmentIdle
    /\ GeminiIdle
    /\ MathIdle
    /\ AutoIdle
    /\ AppIdle
    /\ InjectIdle

\* the call begins: [] is returned for no regions; else merged = [...regions]
\* and changed = true
BeginMerge ==
    /\ mergePc = "called"
    /\ IF Len(regions) = 0
       THEN /\ mergePc' = "returned"
            /\ UNCHANGED <<merged, changed>>
       ELSE /\ merged' = regions
            /\ changed' = TRUE
            /\ mergePc' = "loop"
    /\ UNCHANGED <<regions, gap, outsideMerge>>

\* while (changed): one turn of the loop
MergePass ==
    /\ mergePc = "loop"
    /\ changed
    /\ merged' = mergePass(merged, gap).result
    /\ changed' = mergePass(merged, gap).changed
    /\ UNCHANGED <<regions, gap, mergePc, outsideMerge>>

\* the loop is left: return merged
ReturnMerged ==
    /\ mergePc = "loop"
    /\ ~changed
    /\ mergePc' = "returned"
    /\ UNCHANGED <<regions, gap, merged, changed, outsideMerge>>

NextMerge ==
    \/ BeginMerge
    \/ MergePass
    \/ ReturnMerged

\* the call, which nothing interrupts, runs on until it returns
SpecMerge == InitMerge /\ [][NextMerge]_vars /\ WF_vars(NextMerge)

\* -------------------------------------------------------------------------
\* Properties
\* -------------------------------------------------------------------------

\* the number of opening braces less the number of closing braces among
\* s[a], ..., s[b]
BraceDepth(s, a, b) ==
    Cardinality({k \in a..b : CharAt(s, k) = "{"})
        - Cardinality({k \in a..b : CharAt(s, k) = "}"})

\* the indices at which the braces from index a on are balanced
ClosingBraces(s, a) == {k \in a..(Len(s) - 1) : BraceDepth(s, a, k) = 0}

\* a balanced braced group opens at index a
GroupAt(s, a) == CharAt(s, a) = "{" /\ ClosingBraces(s, a) # {}

\* the index of the brace that closes the group opened at a
GroupClose(s, a) == Least(ClosingBraces(s, a))

\* what stands strictly between the braces of the group opened at a
GroupContent(s, a) == SubSeq(s, a + 2, GroupClose(s, a))

\* the index of the first character from k on that is not a space
AfterSpaces(s, k) ==
    CHOOSE j \in k..Len(s) :
        CharAt(s, j) # " " /\ \A m \in k..(j - 1) : CharAt(s, m) = " "

\* C2: for every text and startIndex, extractBracedContent returns the
\* content strictly between the brace at startIndex and the first brace
\* at which the nesting depth is back to zero, with the index one past that
\* brace; it returns null exactly when there is no such brace or the
\* character at startIndex is not an opening brace.
C2_ExtractBracedContent ==
    pc = "extracted" =>
        IF GroupAt(braceText, startIndex)
        THEN extracted = [found |-> TRUE,
                          content |-> GroupContent(braceText, startIndex),
                          newIndex |-> GroupClose(braceText, startIndex) + 1]
        ELSE extracted = Null

\* a nested group has been extracted whole
C2_Witness ==
    /\ pc = "extracted"
    /\ braceText = <<"{", "{", "a", "}", "}">>
    /\ startIndex = 0
    /\ extracted.found
    /\ extracted.content = <<"{", "a", "}">>
    /\ extracted.newIndex = 5

\* the length of the \frac or \dfrac at index k, 0 when there is none
FracLenAt(s, k) ==
    IF StartsWith(s, k, DfracCmd) THEN 6
    ELSE IF StartsWith(s, k, FracCmd) THEN 5
    ELSE 0

\* where the first and the second argument of the fraction at k must open
NumeratorOpen(s, k) == AfterSpaces(s, k + FracLenAt(s, k))

DenominatorOpen(s, k) == AfterSpaces(s, GroupClose(s, NumeratorOpen(s, k)) + 1)

\* \frac{A}{B} or \dfrac{A}{B} stands at index k, with two balanced
\* arguments, spaces allowed before each
FracAt(s, k) ==
    /\ FracLenAt(s, k) > 0
    /\ GroupAt(s, NumeratorOpen(s, k))
    /\ GroupAt(s, DenominatorOpen(s, k))

\* C3: at \frac{A}{B} or \dfrac{A}{B} with two balanced braced arguments
\* (spaces allowed before each), the scan emits, after the pending text,
\* exactly one fraction whose numerator is parseLatexRecursive(A) and whose
\* denominator is parseLatexRecursive(B), and goes on at the character just
\* past the second closing brace.
C3_Fraction ==
    [][(pc = "scan" /\ i < Len(latex) /\ FracAt(latex, i)) =>
          /\ nodes' =
                 Append(flushBuffer(nodes, textBuffer),
                        MathFraction(
                            parseLatexRecursive(
                                GroupContent(latex, NumeratorOpen(latex, i))),
                            parseLatexRecursive(
                                GroupContent(latex, DenominatorOpen(latex, i)))))
          /\ i' = GroupClose(latex, DenominatorOpen(latex, i)) + 1
          /\ textBuffer' = <<>>]_vars

\* a fraction whose second argument follows a space and holds a script
C3_Witness ==
    /\ pc = "returned"
    /\ latex = FracCmd \o Braced(<<"1">>) \o <<" ">> \o Braced(<<"x", "^", "2">>)
    /\ nodes = <<MathFraction(
                     <<MathRun(<<"1">>)>>,
                     <<MathSuperScript(<<MathRun(<<"x">>)>>,
                                       <<MathRun(<<"2">>)>>)>>)>>

\* C4: at ^ or _ the scan flushes the pending text, takes the last node
\* emitted off the output and appends in its place one superscript (for ^)
\* or subscript (for _) whose base is that node alone, or the empty run
\* alone when nothing has been emitted; so x^2 gives one superscript of
\* base x and script 2.
C4_ScriptBase ==
    /\ [][(pc = "scan" /\ i < Len(latex) /\ CharAt(latex, i) \in {"^", "_"}) =>
             LET flushed == flushBuffer(nodes, textBuffer)
                 pushed == nodes'[Len(nodes')]
             IN /\ Len(nodes') = Max(Len(flushed), 1)
                /\ SubSeq(nodes', 1, Len(nodes') - 1)
                       = SubSeq(flushed, 1, Len(flushed) - 1)
                /\ pushed.type = IF CharAt(latex, i) = "^"
                                 THEN "MathSuperScript" ELSE "MathSubScript"
                /\ pushed.children = IF flushed = <<>>
                                     THEN <<[type |-> "MathRun", text |-> <<>>]>>
                                     ELSE <<flushed[Len(flushed)]>>
                /\ textBuffer' = <<>>]_vars
    /\ [](pc = "returned" /\ latex = <<"x", "^", "2">> =>
             nodes = <<MathSuperScript(<<MathRun(<<"x">>)>>,
                                       <<MathRun(<<"2">>)>>)>>)

\* x^2 has been parsed into one superscript
C4_Witness ==
    /\ pc = "returned"
    /\ latex = <<"x", "^", "2">>
    /\ nodes = <<MathSuperScript(<<MathRun(<<"x">>)>>, <<MathRun(<<"2">>)>>)>>

\* the script of the node a ^ or _ has pushed
ScriptOf(node) ==
    IF node.type = "MathSuperScript" THEN node.superScript ELSE node.subScript

\* C5: the argument of ^ or _ is (1) a balanced braced group {G}, giving
\* the script parseLatexRecursive(G); (2) a backslash and the longest run
\* of letters after it, giving parseLatexRecursive of that command alone;
\* (3) any other next character, giving a run of that one character; and
\* the scan goes on right after the argument consumed.
C5_ScriptArgument ==
    [][(/\ pc = "scan"
        /\ i + 1 < Len(latex)
        /\ CharAt(latex, i) \in {"^", "_"}) =>
          IF GroupAt(latex, i + 1)
          THEN /\ ScriptOf(nodes'[Len(nodes')])
                      = parseLatexRecursive(GroupContent(latex, i + 1))
               /\ i' = GroupClose(latex, i + 1) + 1
          ELSE IF CharAt(latex, i + 1) = "\\" /\ LettersFrom(latex, i + 2) > 0
          THEN /\ ScriptOf(nodes'[Len(nodes')])
                      = parseLatexRecursive(
                            Substring(latex, i + 1,
                                      i + 2 + LettersFrom(latex, i + 2)))
               /\ i' = i + 2 + LettersFrom(latex, i + 2)
          ELSE /\ ScriptOf(nodes'[Len(nodes')])
                      = <<MathRun(<<CharAt(latex, i + 1)>>)>>
               /\ i' = i + 2]_vars

\* \sqrt[ stands at index k and a ] follows
HasDegree(s, k) ==
    /\ StartsWith(s, k, SqrtCmd \o <<"[">>)
    /\ \E j \in (k + 6)..(Len(s) - 1) : CharAt(s, j) = "]"

\* the index of the ] that ends the degree of the \sqrt[ at k
DegreeClose(s, k) == Least({j \in (k + 6)..(Len(s) - 1) : CharAt(s, j) = "]"})

\* the n of the \sqrt[n] at k
DegreeText(s, k) == SubSeq(s, k + 7, DegreeClose(s, k))

\* where the braced argument of the \sqrt at k must open
RadicandOpen(s, k) == IF HasDegree(s, k) THEN DegreeClose(s, k) + 1 ELSE k + 5

\* \sqrt[n]{A} or \sqrt{A} stands at index k
SqrtAt(s, k) == StartsWith(s, k, SqrtCmd) /\ GroupAt(s, RadicandOpen(s, k))

\* C6 (as stated): at \sqrt[n]{A} the scan emits exactly one radical of
\* degree parseLatexRecursive(n) and children parseLatexRecursive(A), at
\* \sqrt{A} exactly one radical of no degree and children
\* parseLatexRecursive(A), and goes on just past the closing brace of A.
C6_Radical ==
    [][(pc = "scan" /\ i < Len(latex) /\ SqrtAt(latex, i)) =>
          /\ nodes' =
                 Append(flushBuffer(nodes, textBuffer),
                        MathRadical(
                            IF HasDegree(latex, i)
                            THEN <<parseLatexRecursive(DegreeText(latex, i))>>
                            ELSE <<>>,
                            parseLatexRecursive(
                                GroupContent(latex, RadicandOpen(latex, i)))))
          /\ i' = GroupClose(latex, RadicandOpen(latex, i)) + 1
          /\ textBuffer' = <<>>]_vars

\* C6 (amended): at \sqrt[n]{A} the scan emits exactly one radical of
\* children parseLatexRecursive(A), whose degree is parseLatexRecursive(n)
\* when that holds a node and which has no degree when it holds none; at
\* \sqrt{A} exactly one radical of no degree; and the scan goes on just
\* past the closing brace of A.
C6_RadicalAmended ==
    [][(pc = "scan" /\ i < Len(latex) /\ SqrtAt(latex, i)) =>
          /\ nodes' =
                 Append(flushBuffer(nodes, textBuffer),
                        MathRadical(
                            IF /\ HasDegree(latex, i)
                               /\ parseLatexRecursive(DegreeText(latex, i)) # <<>>
                            THEN <<parseLatexRecursive(DegreeText(latex, i))>>
                            ELSE <<>>,
                            parseLatexRecursive(
                                GroupContent(latex, RadicandOpen(latex, i)))))
          /\ i' = GroupClose(latex, RadicandOpen(latex, i)) + 1
          /\ textBuffer' = <<>>]_vars

\* a root with an empty degree has given a radical of no degree
C6_Witness ==
    /\ pc = "returned"
    /\ latex = SqrtCmd \o <<"[", "]">> \o Braced(<<"8">>)
    /\ nodes = <<MathRadical(<<>>, <<MathRun(<<"8">>)>>)>>

\* \begin{cases} stands at index k and \end{cases} follows
CasesAt(s, k) ==
    /\ StartsWith(s, k, BeginCases)
    /\ \E j \in k..Len(s) : StartsWith(s, j, EndCases)

\* the index of the first \end{cases} from k on
CasesEnd(s, k) == Least({j \in k..Len(s) : StartsWith(s, j, EndCases)})

\* what stands between \begin{cases} at k and its \end{cases}
CasesInterior(s, k) == SubSeq(s, k + 14, CasesEnd(s, k))

\* the pieces of s from index k on between the line separators, the double
\* backslashes
RECURSIVE LinesFrom(_, _)
LinesFrom(s, k) ==
    IF IndexOf(s, DoubleBackslash, k) = -1 THEN <<SubstringFrom(s, k)>>
    ELSE <<Substring(s, k, IndexOf(s, DoubleBackslash, k))>>
             \o LinesFrom(s, IndexOf(s, DoubleBackslash, k) + 2)

\* the trimmed lines of an interior that are not empty
CaseLines(s) ==
    SelectSeq([n \in 1..Len(LinesFrom(s, 0)) |-> Trim(LinesFrom(s, 0)[n])],
              LAMBDA l : l # <<>>)

\* the builds of the lines from the n-th on, one " ; " between each two
RECURSIVE JoinedBuilds(_, _)
JoinedBuilds(lines, n) ==
    IF n > Len(lines) THEN <<>>
    ELSE parseLatexRecursive(lines[n])
             \o (IF n < Len(lines) THEN <<MathRun(<<" ", ";", " ">>)>> ELSE <<>>)
             \o JoinedBuilds(lines, n + 1)

\* C7: at \begin{cases} with a later \end{cases} the scan emits the run
\* "{ ", then the builds of the trimmed non-empty lines of the interior in
\* order with exactly one run " ; " between each two consecutive lines and
\* none after the last, and goes on just past \end{cases}.
C7_Cases ==
    [][(pc = "scan" /\ i < Len(latex) /\ CasesAt(latex, i)) =>
          /\ nodes' =
                 flushBuffer(nodes, textBuffer)
                     \o <<MathRun(<<"{", " ">>)>>
                     \o JoinedBuilds(CaseLines(CasesInterior(latex, i)), 1)
          /\ i' = CasesEnd(latex, i) + 11
          /\ textBuffer' = <<>>]_vars

\* C8: a case line is passed whole to the recursive build, so that an
\* interior of one line (no double backslash in it) gives, after the run
\* "{ ", the nodes that line gives at top level, its single-backslash
\* commands included.
C8_CaseLineWhole ==
    (/\ pc = "returned"
     /\ CasesAt(latex, 0)
     /\ CasesEnd(latex, 0) + 11 = Len(latex)
     /\ IndexOf(CasesInterior(latex, 0), DoubleBackslash, 0) = -1) =>
        nodes = <<MathRun(<<"{", " ">>)>>
                    \o parseLatexRecursive(Trim(CasesInterior(latex, 0)))

\* the braced argument of the \widehat, \text or \overline at k is missing
\* or unbalanced
ArgumentFails(s, k, cmd) ==
    StartsWith(s, k, cmd) /\ ~GroupAt(s, AfterSpaces(s, k + Len(cmd)))

\* the required braced argument of the command at k is missing or unbalanced
ArgumentMissing(s, k) ==
    \/ FracLenAt(s, k) > 0 /\ ~FracAt(s, k)
    \/ StartsWith(s, k, SqrtCmd) /\ ~SqrtAt(s, k)
    \/ ArgumentFails(s, k, WidehatCmd)
    \/ ArgumentFails(s, k, TextCmd)
    \/ ArgumentFails(s, k, OverlineCmd)

\* C9: when the required braced argument of \frac, \dfrac, \sqrt, \widehat,
\* \text or \overline is missing or unbalanced, the scan emits no node for
\* the command and goes on at the character right after the backslash; a
\* formula that is such a command followed by plain characters comes out
\* as one run carrying every character after the backslash (\frac{1}
\* gives the run frac{1}).
C9_Fallback ==
    /\ [][(pc = "scan" /\ i < Len(latex) /\ ArgumentMissing(latex, i)) =>
             /\ nodes' = flushBuffer(nodes, textBuffer)
             /\ i' = i + 1
             /\ textBuffer' = <<"\\">>]_vars
    /\ [](( /\ pc = "returned"
            /\ ArgumentMissing(latex, 0)
            /\ \A k \in 1..(Len(latex) - 1) :
                   CharAt(latex, k) \notin {"\\", "^", "_"}) =>
             nodes = <<MathRun(SubstringFrom(latex, 1))>>)

\* \frac{1} has come out as the run frac{1}
C9_Witness ==
    /\ pc = "returned"
    /\ latex = FracCmd \o Braced(<<"1">>)
    /\ nodes = <<MathRun(<<"f", "r", "a", "c", "{", "1", "}">>)>>

\* C10: for every key k of latexSymbols, parseLatexRecursive(k) returns
\* exactly one run whose text is latexSymbols[k], or no node when that
\* glyph is the empty string.
C10_SymbolGlyph ==
    (pc = "returned" /\ \E n \in 1..Len(symbolKeys) : latex = symbolKeys[n]) =>
        nodes = IF latexSymbols(latex) = <<>> THEN <<>>
                ELSE <<MathRun(latexSymbols(latex))>>

\* p is an inline span: a "$", no "$" inside, a "$"
InlineSpan(p) ==
    /\ Len(p) >= 2
    /\ p[1] = "$"
    /\ p[Len(p)] = "$"
    /\ \A k \in 2..(Len(p) - 1) : p[k] # "$"

\* p is a display span: "$$" at both ends
DisplaySpan(p) ==
    /\ Len(p) >= 4
    /\ SubSeq(p, 1, 2) = DoubleDollar
    /\ SubSeq(p, Len(p) - 1, Len(p)) = DoubleDollar

IsSpan(p) == InlineSpan(p) \/ DisplaySpan(p)

\* the span p without its delimiters
SpanContent(p) ==
    IF DisplaySpan(p) THEN SubSeq(p, 3, Len(p) - 2)
    ELSE SubSeq(p, 2, Len(p) - 1)

\* the line **bold** and $x^2$
BoldAndMath ==
    <<"*", "*", "b", "o", "l", "d", "*", "*", " ", "a", "n", "d", " ",
      "$", "x", "^", "2", "$">>

\* the runs the line **bold** and $x^2$ gives
BoldAndMathRuns ==
    <<BoldRun(<<"b", "o", "l", "d">>),
      TextRun(<<" ", "a", "n", "d", " ">>),
      Math(<<MathSuperScript(<<MathRun(<<"x">>)>>, <<MathRun(<<"2">>)>>)>>)>>

\* C1: parseMathInText handles the pieces of the line from left to right
\* (the pieces make up the line, the spans $...$ and $$...$$ alternating
\* with the text between them) and only appends to its result: a span
\* gives exactly one formula group whose children are parseLatexRecursive
\* of the span without its delimiters, trimmed; the text between spans
\* gives bold, italic and plain runs only; an empty piece gives no run; and
\* **bold** and $x^2$ gives a bold run, a plain run and one formula group.
C1_Segment ==
    /\ [](pc \in {"parts", "segmented"} =>
             /\ Flatten(mathParts) = text
             /\ \A n \in 1..Len(mathParts) :
                    IsSpan(mathParts[n]) <=> n % 2 = 0)
    /\ [][(pc = "parts" /\ partIdx < Len(mathParts)) =>
             LET p == mathParts[partIdx + 1]
                 pushed == SubSeq(result', Len(result) + 1, Len(result'))
             IN /\ Len(result') >= Len(result)
                /\ SubSeq(result', 1, Len(result)) = result
                /\ IF IsSpan(p)
                   THEN pushed
                            = <<Math(parseLatexRecursive(Trim(SpanContent(p))))>>
                   ELSE /\ \A n \in 1..Len(pushed) :
                               /\ pushed[n].type = "TextRun"
                               /\ pushed[n].style \in {"bold", "italics", "plain"}
                        /\ p = <<>> => pushed = <<>>
                        /\ (p # <<>> /\ \A k \in 1..Len(p) : p[k] # "*") =>
                               pushed = <<TextRun(p)>>]_vars
    /\ [](pc = "segmented" /\ text = BoldAndMath => result = BoldAndMathRuns)

\* the line **bold** and $x^2$ has been segmented
C1_Witness ==
    /\ pc = "segmented"
    /\ text = BoldAndMath
    /\ result = BoldAndMathRuns


\* the keys of latexSymbols
SymbolKeySet == {symbolKeys[n] : n \in 1..Len(symbolKeys)}

\* the keys of which another key is a proper prefix
CollidingKeys ==
    {long \in SymbolKeySet :
        \E short \in SymbolKeySet :
            Len(short) < Len(long) /\ SubSeq(long, 1, Len(short)) = short}

LeGlyph == <<"U+2264">>

\* C11: flushBuffer tries the keys in an order of non-increasing length, so
\* that pending text made of a key of which another key is a proper prefix
\* (\leq over \le, \infty over \in, ...), alone or followed by plain text,
\* is flushed as the glyph of that longer key, not as the glyph of the
\* shorter key and stray letters; \leq and \le both give the run of the
\* glyph for less-or-equal.
C11_LongestKeyFirst ==
    /\ [](/\ {sortedSymbolKeys[n] : n \in 1..Len(sortedSymbolKeys)} = SymbolKeySet
          /\ Len(sortedSymbolKeys) = Len(symbolKeys)
          /\ \A n \in 1..(Len(sortedSymbolKeys) - 1) :
                 Len(sortedSymbolKeys[n]) >= Len(sortedSymbolKeys[n + 1]))
    /\ [][\A long \in CollidingKeys :
             /\ (pc = "scan" /\ pc' = "returned" /\ textBuffer = long) =>
                    nodes' = Append(nodes, MathRun(latexSymbols(long)))
             /\ (pc = "scan" /\ pc' = "returned"
                     /\ textBuffer = long \o <<" ", "b">>) =>
                    nodes' = Append(nodes,
                                    MathRun(latexSymbols(long) \o <<" ", "b">>))]_vars
    /\ [](( /\ pc = "returned"
            /\ latex \in {<<"\\", "l", "e", "q">>, <<"\\", "l", "e">>}) =>
             nodes = <<MathRun(LeGlyph)>>)

\* \leq, which \le is a prefix of, has been flushed as one glyph
C11_Witness ==
    /\ pc = "returned"
    /\ latex = <<"\\", "l", "e", "q">>
    /\ nodes = <<MathRun(LeGlyph)>>

\* the commands the scan handles itself
DispatchCommands ==
    {WidehatCmd, BeginCases, FracCmd, DfracCmd, SqrtCmd, LeftCmd, RightCmd,
     TextCmd, OverlineCmd}

\* s is a backslash and a run of letters that is no key of latexSymbols and
\* does not begin with a command the scan handles
UnknownCommand(s) ==
    /\ Len(s) >= 2
    /\ s[1] = "\\"
    /\ \A k \in 2..Len(s) : s[k] \in Letters
    /\ s \notin SymbolKeySet
    /\ \A cmd \in DispatchCommands : ~StartsWith(s, 0, cmd)

\* C12: for a command \name, name a run of letters, that is neither a key
\* of the symbol table nor a command the scan handles, parseLatexRecursive
\* returns a single run whose text is exactly name.
C12_UnknownCommand ==
    (pc = "returned" /\ UnknownCommand(latex)) =>
        nodes = <<MathRun(SubstringFrom(latex, 1))>>

\* some run of the tree under the nodes ns has a backslash in its text
RECURSIVE HasBackslash(_)
HasBackslash(ns) ==
    \E n \in 1..Len(ns) :
        CASE ns[n].type = "MathRun" ->
                 \E k \in 1..Len(ns[n].text) : ns[n].text[k] = "\\"
          [] ns[n].type = "MathFraction" ->
                 HasBackslash(ns[n].numerator) \/ HasBackslash(ns[n].denominator)
          [] ns[n].type = "MathSuperScript" ->
                 HasBackslash(ns[n].children) \/ HasBackslash(ns[n].superScript)
          [] ns[n].type = "MathSubScript" ->
                 HasBackslash(ns[n].children) \/ HasBackslash(ns[n].subScript)
          [] ns[n].type = "MathRadical" ->
                 \/ HasBackslash(ns[n].children)
                 \/ \E d \in 1..Len(ns[n].degree) : HasBackslash(ns[n].degree[d])

\* C13: no run anywhere in the tree parseLatexRecursive returns (top level,
\* fraction parts, radical parts, script bases and script contents) has a
\* backslash in its text.
C13_NoBackslashInRuns == pc = "returned" => ~HasBackslash(nodes)

\* C14: parseLatexRecursive terminates and consumes all of its input: every
\* iteration of the scan loop strictly increases the index, the index never
\* passes the length of the input and the loop ends only when it has
\* reached it, every recursive call is made on a string strictly shorter
\* than the input of the caller, and the call returns.
C14_Terminates ==
    /\ [][(pc = "scan" /\ pc' = "scan") => i' > i]_vars
    /\ [](pc = "scan" => i <= Len(latex))
    /\ [](pc = "returned" => i = Len(latex))
    /\ [](( pc = "scan" /\ i < Len(latex)) =>
             \A call \in recursiveCalls(latex, i) : Len(call) < Len(latex))
    /\ <>(pc = "returned")

\* a formula whose scan made recursive calls has been consumed whole
C14_Witness ==
    /\ pc = "returned"
    /\ latex = FracCmd \o Braced(<<"1">>) \o Braced(<<"1">>)
    /\ i = Len(latex)
    /\ recursiveCalls(latex, 0) = {<<"1">>}

\* the number of runs pushed for the n-th part: one for a math part, and
\* those of its segments for another
RunCount(n) ==
    IF isMath(Trim(mathParts[n])) THEN 1 ELSE Len(textPart(mathParts[n]))

\* the number of runs pushed for the parts before the n-th
RECURSIVE RunsBefore(_)
RunsBefore(n) == IF n <= 1 THEN 0 ELSE RunsBefore(n - 1) + RunCount(n - 1)

\* the fallback run of a span: its delimited text, in red
RedRun(span) ==
    [type |-> "TextRun", text |-> span, style |-> "plain", color |-> "FF0000"]

\* the formula group of a span
GroupOf(span) == Math(parseLatexRecursive(mathContent(span)))

\* C15: if building the formula of a math span throws, parseMathInText does
\* not throw: the iteration pushes exactly one run, the red plain-text run
\* with the delimited text of the span (or, when nothing is thrown, its
\* formula group), the runs already pushed are kept, and the loop goes on:
\* whatever spans threw, every part has its runs in the result, in order.
C15_CatchPerSpan ==
    /\ [][(/\ pc = "parts"
           /\ partIdx < Len(mathParts)
           /\ isMath(Trim(mathParts[partIdx + 1])))
          => /\ pc' = "parts"
             /\ partIdx' = partIdx + 1
             /\ mathParts' = mathParts
             /\ \/ result' = Append(result, RedRun(mathParts[partIdx + 1]))
                \/ result' = Append(result, GroupOf(mathParts[partIdx + 1]))]_vars
    /\ [](pc \in {"parts", "segmented"} =>
            /\ Len(result) = RunsBefore(partIdx + 1)
            /\ \A n \in 1..partIdx :
                  IF isMath(Trim(mathParts[n]))
                  THEN result[RunsBefore(n) + 1]
                          \in {RedRun(mathParts[n]), GroupOf(mathParts[n])}
                  ELSE SubSeq(result, RunsBefore(n) + 1, RunsBefore(n + 1))
                          = textPart(mathParts[n]))
    /\ [](pc = "segmented" => partIdx = Len(mathParts))

\* the first span threw, and the text and the span after it have their runs
C15_Witness ==
    /\ pc = "segmented"
    /\ text = <<"$", "x", "^", "2", "$", " ", "a", "n", "d", " ",
                "$", "x", "^", "2", "$">>
    /\ result = <<RedRun(<<"$", "x", "^", "2", "$">>),
                  TextRun(<<" ", "a", "n", "d", " ">>),
                  GroupOf(<<"$", "x", "^", "2", "$">>)>>

\* the index in text at which the n-th part starts
RECURSIVE PartOffset(_)
PartOffset(n) ==
    IF n <= 1 THEN 0 ELSE PartOffset(n - 1) + Len(mathParts[n - 1])

\* a "$$" opens at index k of text and another "$$" follows it
DisplayOpensAt(k) ==
    /\ StartsWith(text, k, DoubleDollar)
    /\ IndexOf(text, DoubleDollar, k + 2) # -1

\* the index of the "$$" that follows the one at index k
DisplayClose(k) == IndexOf(text, DoubleDollar, k + 2)

\* C16: where the search for a span meets "$$" with another "$$" after it,
\* the display delimiter is preferred: the span runs from the opening "$$"
\* to the next "$$", whatever single "$" lies between them, and gives one
\* formula group built from the content between the two "$$".  The search
\* meets the first "$" of the line, and then the start of every span.
C16_DisplayPreferred ==
    pc \in {"parts", "segmented"} =>
        /\ LET first == IndexOf(text, Dollar, 0)
           IN (first # -1 /\ DisplayOpensAt(first)) =>
                  /\ Len(mathParts) >= 2
                  /\ PartOffset(2) = first
        /\ \A n \in 1..Len(mathParts) :
              (n % 2 = 0 /\ DisplayOpensAt(PartOffset(n))) =>
                  /\ mathParts[n]
                        = Substring(text, PartOffset(n),
                                    DisplayClose(PartOffset(n)) + 2)
                  /\ n <= partIdx =>
                        /\ RunCount(n) = 1
                        /\ result[RunsBefore(n) + 1]
                              = Math(parseLatexRecursive(
                                    Trim(Substring(text, PartOffset(n) + 2,
                                                   DisplayClose(PartOffset(n))))))

\* $$a$b$$ is one span, with one formula group for a$b
C16_Witness ==
    /\ pc = "segmented"
    /\ text = <<"$", "$", "a", "$", "b", "$", "$">>
    /\ mathParts = <<<<>>, text, <<>>>>
    /\ result = <<Math(<<MathRun(<<"a", "$", "b">>)>>)>>

\* a piece is a complete **...** pair: the markers around a non-empty
\* interior without "*"
BoldPair(seg) ==
    /\ Len(seg) >= 5
    /\ StartsWith(seg, 0, DoubleStar)
    /\ EndsWith(seg, DoubleStar)
    /\ \A k \in 3..(Len(seg) - 2) : seg[k] # "*"

\* a piece is a complete *...* pair
ItalicPair(seg) ==
    /\ Len(seg) >= 3
    /\ StartsWith(seg, 0, Star)
    /\ EndsWith(seg, Star)
    /\ \A k \in 2..(Len(seg) - 1) : seg[k] # "*"

\* the runs of a piece: bold or italic for a complete pair, with the
\* interior as text, plain with the piece as text for any other non-empty
\* piece, and none for an empty piece
PieceRuns(seg) ==
    IF BoldPair(seg) THEN <<BoldRun(SubSeq(seg, 3, Len(seg) - 2))>>
    ELSE IF ItalicPair(seg) THEN <<ItalicRun(SubSeq(seg, 2, Len(seg) - 1))>>
    ELSE IF seg # <<>> THEN <<TextRun(seg)>>
    ELSE <<>>

\* the runs of the pieces from the n-th on
RECURSIVE PiecesRuns(_, _)
PiecesRuns(segments, n) ==
    IF n > Len(segments) THEN <<>>
    ELSE PieceRuns(segments[n]) \o PiecesRuns(segments, n + 1)

\* the text a run stands for, with the markers of its style put back
Marked(run) ==
    IF run.style = "bold" THEN DoubleStar \o run.text \o DoubleStar
    ELSE IF run.style = "italics" THEN Star \o run.text \o Star
    ELSE run.text

\* C17: in a part that is not math, a piece gives a bold run only when it
\* is a complete **...** pair and an italic run only when it is a complete
\* *...* pair, with the interior as text; every other non-empty piece gives
\* a plain run with the piece as text; so the runs of the part, with the
\* markers put back, spell the part.
C17_StylePieces ==
    [][(/\ pc = "parts"
        /\ partIdx < Len(mathParts)
        /\ ~isMath(Trim(mathParts[partIdx + 1])))
       => LET pushed == SubSeq(result', Len(result) + 1, Len(result'))
          IN /\ pushed = PiecesRuns(SplitStyle(mathParts[partIdx + 1]), 1)
             /\ Flatten([n \in 1..Len(pushed) |-> Marked(pushed[n])])
                   = mathParts[partIdx + 1]]_vars

\* the index at which the argument of the \text at index k opens
TextArgOpen(s, k) == AfterSpaces(s, k + 5)

\* \text stands at index k with a balanced braced argument
TextAt(s, k) == StartsWith(s, k, TextCmd) /\ GroupAt(s, TextArgOpen(s, k))

\* C19: at \text{A} with a balanced braced argument the scan emits, after
\* the pending text, exactly one Run whose text is A as it stands: nothing
\* in A is parsed and no symbol of A is substituted; and the scan goes on at
\* the character just past the closing brace.  So the formula \text{A} alone
\* gives the one Run A.
C19_TextVerbatim ==
    /\ [][(pc = "scan" /\ i < Len(latex) /\ TextAt(latex, i)) =>
            /\ nodes' =
                   Append(flushBuffer(nodes, textBuffer),
                          MathRun(GroupContent(latex, TextArgOpen(latex, i))))
            /\ i' = GroupClose(latex, TextArgOpen(latex, i)) + 1
            /\ textBuffer' = <<>>]_vars
    /\ []((/\ pc = "returned"
           /\ TextAt(latex, 0)
           /\ GroupClose(latex, TextArgOpen(latex, 0)) = Len(latex) - 1)
          => nodes = <<MathRun(GroupContent(latex, TextArgOpen(latex, 0)))>>)

\* \text{x^2} has given the one Run x^2, and no script
C19_Witness ==
    /\ pc = "returned"
    /\ latex = TextCmd \o Braced(<<"x", "^", "2">>)
    /\ nodes = <<MathRun(<<"x", "^", "2">>)>>

\* C18: when parseLatexRecursive(f) is a single Run with text t,
\* parseLatexRecursive(t) is that single Run again.
C18_Idempotent ==
    (pc = "returned" /\ Len(nodes) = 1 /\ nodes[1].type = "MathRun")
        => parseLatexRecursive(nodes[1].text) = nodes

\* the model the call in progress has as selected
Selected == getSelectedModel(storedModel)

\* the place of a model id in the list MODELS
ListPlace(id) == CHOOSE n \in 1..Len(MODELS) : MODELS[n] = id

\* the models requested so far
Requested == {requests[n].modelId : n \in 1..Len(requests)}

\* C20: callGemini requests the selected model first and then the other
\* models of MODELS in the order of the list, each at most once; a request
\* starts only when every earlier one has failed, so none follows a success;
\* when every request fails without an auth error, every model has been
\* tried; the call returns the text of the request that succeeded; and with
\* no stored API key it throws API_KEY_MISSING and makes no request.
C20_ModelFallback ==
    /\ [](getApiKey(storedKey) = "" =>
            /\ requests = <<>>
            /\ pc \in {"call", "rejected"}
            /\ pc = "rejected" => settled = Thrown(MissingKey))
    /\ [](Len(requests) >= 1 => requests[1].modelId = Selected)
    /\ [](\A n \in 2..Len(requests) :
            /\ requests[n].modelId \in Range(MODELS) \ {Selected}
            /\ \A m \in 2..(n - 1) :
                  ListPlace(requests[m].modelId)
                      < ListPlace(requests[n].modelId))
    /\ [](\A n \in 1..(Len(requests) - 1) : requests[n].state = "failed")
    /\ [][Len(requests') > Len(requests) =>
            /\ Len(requests') = Len(requests) + 1
            /\ SubSeq(requests', 1, Len(requests)) = requests
            /\ \A n \in 1..Len(requests) : requests[n].state = "failed"]_vars
    /\ [](pc = "resolved" =>
            /\ requests # <<>>
            /\ requests[Len(requests)].state = "succeeded"
            /\ requests[Len(requests)].text # ""
            /\ settled = Returned(requests[Len(requests)].text))
    /\ [][pc = "resolved" => requests' = requests]_vars
    /\ []((pc = "rejected" /\ requests # <<>> /\ ~isAuthError(lastError)) =>
            Requested = Range(MODELS) \cup {Selected})

\* the selected model and the first model of the list failed, and the call
\* returned the text of the last model
C20_Witness ==
    /\ pc = "resolved"
    /\ storedModel = "gemini-2.5-pro"
    /\ requests =
           <<[modelId |-> "gemini-2.5-pro", state |-> "failed", text |-> ""],
             [modelId |-> "gemini-2.5-flash", state |-> "failed", text |-> ""],
             [modelId |-> "gemini-2.0-flash", state |-> "succeeded",
              text |-> "answer"]>>
    /\ settled = Returned("answer")

\* the error caught is the one makeApiRequest throws for a response with
\* status 401 or 403
AuthenticationError(message) ==
    message # <<>> /\ Head(message) = "API_KEY_INVALID"

\* C21: when a request fails with an authentication error (status 401 or
\* 403, reported as API_KEY_INVALID) callGemini throws that error at once and
\* tries no further model; on any other failure it goes on to the next
\* model; and when every model has failed it throws the error of the last
\* model tried.
C21_AuthStopsOthersContinue ==
    /\ [][(pc = "awaiting" /\ pc' # "resolved") =>
            /\ requests'[Len(requests')].state = "failed"
            /\ IF AuthenticationError(lastError')
               THEN /\ pc' = "rejected"
                    /\ settled' = Thrown(lastError')
               ELSE /\ pc' = "loop"
                    /\ modelIdx' = modelIdx + 1
                    /\ settled' = settled]_vars
    /\ [][pc = "rejected" => requests' = requests]_vars
    /\ []((pc = "rejected" /\ requests # <<>>) =>
            /\ settled = Thrown(lastError)
            /\ ~AuthenticationError(lastError) =>
                  /\ Len(requests) = Len(Order)
                  /\ \A n \in 1..Len(requests) : requests[n].state = "failed")

\* -------------------------------------------------------------------------
\* Claims on processMathFormulas, the processors and the app
\* -------------------------------------------------------------------------

\* the chunks whose request is in flight
InFlight == {k \in DOMAIN chunkState : chunkState[k] = "inflight"}

\* the chunks of the batches before the batch of the k-th chunk
EarlierBatches(k) == 1..(3 * ((k - 1) \div 3))

\* C22: processMathFormulas has at most 3 chunk requests in flight, and they
\* are of one batch; the request of a chunk is sent only when every request
\* of the batches before it has completed; the call returns the cleaned
\* responses joined by a blank line in the order of the chunks, whatever
\* order they came in; and when a chunk request fails the call rejects, with
\* no text returned.
C22_Batches ==
    /\ [](/\ Cardinality(InFlight) <= 3
          /\ \A k \in InFlight : InFlight \cap EarlierBatches(k) = {})
    /\ [][\A k \in DOMAIN chunkState' :
             (/\ chunkState'[k] = "inflight"
              /\ k \in DOMAIN chunkState => chunkState[k] = "unsent")
             => \A j \in EarlierBatches(k) :
                   j \in DOMAIN chunkState /\ chunkState[j] = "done"]_vars
    /\ []((mathPc = "resolved" /\ ~rawBlank) =>
            /\ \A k \in 1..chunkCount : chunkState[k] = "done"
            /\ mathResult =
                   Returned(JoinFrom([k \in 1..chunkCount |->
                                         cleanGeminiResponse(geminiResults[k])],
                                     1)))
    /\ []((\E k \in DOMAIN chunkState : chunkState[k] = "failed") =>
            /\ mathPc = "rejected"
            /\ mathResult = Thrown(ChunkError))
    /\ [][mathPc = "rejected" =>
            mathPc' = "rejected" /\ mathResult' = mathResult]_vars

\* four chunks, in two batches, have given their text in the order of the
\* chunks
C22_Witness ==
    /\ mathPc = "resolved"
    /\ chunkCount = 4
    /\ geminiResults[1] # geminiResults[2]
    /\ mathResult =
           Returned(<<"r", "1", "\n", "\n", "r", "2", "\n", "\n",
                      "r", "3", "\n", "\n", "r", "4">>)

\* C23: with forceOcr autoProcess runs only OCR; without it autoProcess runs
\* the text extraction first and returns its result, with confidence 99 and
\* no OCR, whenever the text has at least 20 characters that are not white
\* space for each page, and else runs OCR and returns the OCR result.
C23_TextOrOcr ==
    /\ forceOcr => ~ranExtract
    /\ autoPc = "resolved" =>
          /\ forceOcr =>
                /\ ranOcr
                /\ autoResult.value.method = "tesseract.js"
          /\ ~forceOcr =>
                /\ ranExtract
                /\ IF textLength(pdfText) >= 20 * pageCount
                   THEN /\ ~ranOcr
                        /\ autoResult.value.method = "pdf.js"
                        /\ autoResult.value.confidence = 99
                   ELSE /\ ranOcr
                        /\ autoResult.value.method = "tesseract.js"
                        /\ autoResult.value.confidence = ocrConfidence

\* a run of startProcessing is between its start and its block finally
Running == appPc \in {"phase1", "phase2", "phase3"}

\* C24: isProcessing is true exactly while a run of startProcessing is
\* between its start and its block finally; a call of startProcessing while
\* isProcessing changes nothing; and however the run ends, with the results
\* displayed or with an error caught, isProcessing is false again.
C24_FlagFramesRun ==
    /\ [](isProcessing <=> Running)
    /\ [][(isProcessing /\ clicks' = clicks + 1) =>
             UNCHANGED <<isProcessing, selectedFiles, keepImages, useAiMath,
                         appPc, batchFiles, batchTexts, phase1File,
                         phase2File, imagePage, rawText, progressLog, outcome,
                         autoVars, mathVars>>]_vars
    /\ [][(~isProcessing /\ isProcessing') => clicks' = clicks + 1]_vars
    /\ [](appPc = "done" =>
            ~isProcessing /\ outcome \in {"displayed", "error"})

\* a run has ended in the catch block, and startProcessing was called twice
C24_Witness ==
    /\ appPc = "done"
    /\ outcome = "error"
    /\ ~isProcessing
    /\ clicks = 2
    /\ Len(progressLog) > 1

\* C25: while isProcessing no handler of the page (the click on the upload
\* zone, the change of the file input, the drop, the remove button) changes
\* selectedFiles, so the file of phase 2 and the file that names the export
\* when the run ends are the file of phase 1.
C25_FilesFixed ==
    /\ [][isProcessing => selectedFiles' = selectedFiles]_vars
    /\ []((phase1File # "(none)" /\ phase2File # "(none)") =>
            phase2File = phase1File)
    /\ []((appPc = "done" /\ phase1File # "(none)") =>
            (Len(selectedFiles) > 0 /\ selectedFiles[1] = phase1File))

\* C26: the percentages given to updateProgress in a run never go down and
\* stay within 0..100, through the text phase (0 to 40), the image phase (41
\* to 55), the AI phase (56 to 98) and the final 99, also when the request of
\* a chunk fails while others of its batch are in flight; and once the run
\* has finished updateProgress is not called again.
C26_ProgressRises ==
    /\ [](\A k \in DOMAIN progressLog : progressLog[k] \in 0..100)
    /\ [](\A k \in 1..(Len(progressLog) - 1) :
             progressLog[k] <= progressLog[k + 1])
    /\ [][appPc = "done" => progressLog' = progressLog]_vars

\* the orders the images of a page may have on their lines: each image once,
\* relY never going down
Orders(page) ==
    LET ofPage == {k \in DOMAIN images : images[k].pageNum = page}
    IN {order \in [1..Cardinality(ofPage) -> ofPage] :
           /\ \A a, b \in DOMAIN order : a # b => order[a] # order[b]
           /\ \A a \in 1..(Len(order) - 1) :
                 images[order[a]].relY <= images[order[a + 1]].relY}

\* the placeholders in an order, one per line, and a blank line after them
RECURSIVE Block(_)
Block(order) ==
    IF Len(order) = 0 THEN <<>>
    ELSE <<images[order[1]].placeholder, "\n">>
             \o (IF Len(order) = 1 THEN <<"\n">> ELSE <<>>)
             \o Block(Tail(order))

\* the texts of the pages 1..upTo where each page has its mark, then the
\* placeholders of its images, then its text
RECURSIVE WithBlocks(_)
WithBlocks(upTo) ==
    IF upTo = 0 THEN {<<>>}
    ELSE {before \o (IF upTo > 1 THEN pageSeparator(upTo) ELSE <<>>)
                 \o Block(order) \o pages[upTo] :
             before \in WithBlocks(upTo - 1), order \in Orders(upTo)}

\* C27: injectImagePlaceholders puts the placeholders of the images of each
\* page, one per line and in ascending relY, right before the text of that
\* page; every placeholder is in the text exactly once; the marks of the
\* pages are unchanged; and the text without the lines put in is the text
\* given.
C27_PlaceholdersBeforePage ==
    injectPc = "returned" =>
        /\ injected \in WithBlocks(Len(pages))
        /\ \A k \in DOMAIN images :
              Cardinality({at \in DOMAIN injected :
                              injected[at] = images[k].placeholder}) = 1

\* two regions are apart: on one axis at least, the gap or more lies between
\* them
Apart(a, b) ==
    \/ a.x + a.width + gap <= b.x
    \/ b.x + b.width + gap <= a.x
    \/ a.y + a.height + gap <= b.y
    \/ b.y + b.height + gap <= a.y

\* the region inner lies within the region outer
Within(inner, outer) ==
    /\ outer.x <= inner.x
    /\ outer.y <= inner.y
    /\ inner.x + inner.width <= outer.x + outer.width
    /\ inner.y + inner.height <= outer.y + outer.height

\* C28: mergeOverlappingRegions terminates, and the regions it returns are
\* such that no two of them overlap or are nearer than gap on both axes,
\* every region given lies within one of them, and they are no more than
\* the regions given.
C28_MergedApart ==
    /\ <>(mergePc = "returned")
    /\ [](mergePc = "returned" =>
            /\ \A a, b \in DOMAIN merged :
                  a # b => Apart(merged[a], merged[b])
            /\ \A k \in DOMAIN regions :
                  \E m \in DOMAIN merged : Within(regions[k], merged[m])
            /\ Len(merged) <= Len(regions))
    /\ [][(mergePc = "loop" /\ changed') => Len(merged') < Len(merged)]_vars

\* three regions in a row, the first two apart and the third between them,
\* have come back as one
C28_Witness ==
    /\ mergePc = "returned"
    /\ Len(regions) = 3
    /\ Apart(regions[1], regions[2])
    /\ Len(merged) = 1
    /\ merged[1].width > 2
=============================================================================
